---- MODULE Spec2Model ----
(***************************************************************************)
(* A model of plex-mcp-server: the tool handlers registered by main        *)
(* (src/src/plex-mcp-server-ts.ts), the two clients they run against       *)
(* (MockPlexClient, src/src/mocks/MockPlexClient.ts, and PlexClient,       *)
(* src/unnamed/part_000), main's startup sequence with its two HTTP        *)
(* routes, and PlexClient.playMedia.                                       *)
(*                                                                         *)
(* JavaScript values are written as follows.  A scalar that the program    *)
(* only carries around (a rating key, a title, a year, a duration, a       *)
(* rating, a flag) is the string of its JSON text: 1999 is "1999", 8.7 is  *)
(* "8.7", false is "false".  undefined is the string "undefined", which is *)
(* no JSON text.  A number the program computes with (start, size,         *)
(* totalSize, a length) is an integer; where such a number may be          *)
(* undefined the record simply lacks the field.  An object is a record,    *)
(* and an absent property is a field outside its DOMAIN.  A value that may *)
(* or may not be an array carries a tag: [kind |-> "array", elems |-> s],  *)
(* [kind |-> "undefined"], [kind |-> "null"], [kind |-> "object"] (an      *)
(* object that is no array and has no map method).  null inside an array   *)
(* is the record JsNull.                                                   *)
(***************************************************************************)
EXTENDS Integers, Sequences, FiniteSets, TLC

VARIABLES
    client,       \* the plexClient the handlers close over: "mock" | "upstream"
    pc,           \* position of the current tool invocation
    tool,         \* name of the invoked tool
    args,         \* its arguments, after schema validation
    clientCalls,  \* the client operations called during this invocation
    upstream,     \* what the upstream returned to the pending client operation
    clientResult, \* how the awaited client operation settled
    mediaItems,   \* the handler's local projection (before JSON.stringify)
    toolResult,   \* what the handler returned to its caller
    mainPc,       \* position of main
    env,          \* process.env: USE_MOCK_PLEX and PLEX_TOKEN
    plexClient,   \* main's plexClient: "unset" | "mock" | "upstream"
    constructed,  \* how many times new PlexClient(...) ran
    registered,   \* the tool names given to server.tool, in order
    mainResult,   \* [kind |-> "pending" | "resolved" | "rejected", ...]
    serverMade,   \* new McpServer(...) ran
    listening,    \* app.listen ran
    sseTransport, \* the /sse route's shared reference: 0 is null, n the n-th transport
    connects,     \* the transports given to server.connect, in order
    sseOpened,    \* how many SSEServerTransport objects were created
    posts,        \* the outcome of each POST /messages, in order
    play,         \* the state of one playMedia call
    movies,       \* the state of one PlexClient.getMovies call
    routes        \* the /sse and /messages routes, with their await

toolVars == <<client, pc, tool, args, clientCalls, upstream, clientResult,
              mediaItems, toolResult>>
mainVars == <<mainPc, env, plexClient, constructed, registered, mainResult,
              serverMade, listening, sseTransport, connects, sseOpened, posts>>
vars == <<toolVars, mainVars, play, movies, routes>>

----------------------------------------------------------------------------
(* JavaScript values *)

Undefined == "undefined"

JsNull == [jsnull |-> TRUE]

IsNullish(e) == "jsnull" \in DOMAIN e

\* o.k : the property, or undefined when the object has none
Get(o, k) == IF k \in DOMAIN o THEN o[k] ELSE Undefined

Arr(s) == [kind |-> "array", elems |-> s]

IsArray(v) == v.kind = "array"

\* JSON.stringify of an object whose properties are scalars: a property whose
\* value is undefined is left out
Stringify(o) == [k \in {f \in DOMAIN o : o[f] # Undefined} |-> o[k]]

Min(a, b) == IF a < b THEN a ELSE b

Max(a, b) == IF a > b THEN a ELSE b

\* Array.prototype.slice's relative index: a negative index counts from the end
RelIndex(i, len) == IF i < 0 THEN Max(len + i, 0) ELSE Min(i, len)

\* Array.prototype.slice(start, end) for integer arguments
Slice(s, start, end) ==
    SubSeq(s, RelIndex(start, Len(s)) + 1, RelIndex(end, Len(s)))

----------------------------------------------------------------------------
(* MockPlexClient: static fixture data *)

DefaultMedia == Arr(<<[optimizedForStreaming |-> "1"]>>)

MockLibraries ==
    << [key |-> "1", title |-> "Movies", type |-> "movie"],
       [key |-> "2", title |-> "TV Shows", type |-> "show"] >>

MockContents ==
    << [ratingKey |-> "101", title |-> "The Matrix", year |-> "1999",
        type |-> "movie", duration |-> "136", rating |-> "8.7",
        summary |-> "A computer hacker learns about the true nature of reality.",
        Media |-> DefaultMedia],
       [ratingKey |-> "102", title |-> "Inception", year |-> "2010",
        type |-> "movie", duration |-> "148", rating |-> "8.8",
        summary |-> "A thief who steals corporate secrets through the use of dream-sharing technology.",
        Media |-> DefaultMedia],
       [ratingKey |-> "103", title |-> "Breaking Bad", year |-> "2008",
        type |-> "show", childCount |-> "5",
        summary |-> "A high school chemistry teacher turned methamphetamine manufacturer.",
        Media |-> DefaultMedia],
       [ratingKey |-> "104", title |-> "The Shawshank Redemption", year |-> "1994",
        type |-> "movie", duration |-> "142", rating |-> "9.3",
        summary |-> "Two imprisoned men bond over a number of years, finding solace and eventual redemption through acts of common decency.",
        Media |-> DefaultMedia],
       [ratingKey |-> "105", title |-> "The Dark Knight", year |-> "2008",
        type |-> "movie", duration |-> "152", rating |-> "9.0",
        summary |-> "When the menace known as the Joker wreaks havoc and chaos on the people of Gotham, Batman must accept one of the greatest psychological and physical tests of his ability to fight injustice.",
        Media |-> DefaultMedia],
       [ratingKey |-> "301", title |-> "Lethal Weapon", year |-> "1987",
        type |-> "movie", duration |-> "110", rating |-> "7.6",
        summary |-> "A veteran cop reluctantly teams with a reckless partner.",
        Media |-> DefaultMedia],
       [ratingKey |-> "302", title |-> "Lethal Weapon 2", year |-> "1989",
        type |-> "movie", duration |-> "114", rating |-> "7.2",
        summary |-> "Riggs and Murtaugh protect a federal witness.",
        Media |-> DefaultMedia] >>

MockMovies ==
    << MockContents[1], MockContents[2], MockContents[4], MockContents[5] >>

MockSeasons ==
    << [ratingKey |-> "201", title |-> "Season 1", index |-> "1",
        leafCount |-> "10", type |-> "season"],
       [ratingKey |-> "202", title |-> "Season 2", index |-> "2",
        leafCount |-> "12", type |-> "season"] >>

MockEpisodes ==
    << [ratingKey |-> "301", title |-> "Pilot", parentIndex |-> "1",
        index |-> "1", duration |-> "45", summary |-> "First episode.",
        type |-> "episode"],
       [ratingKey |-> "302", title |-> "Second Episode", parentIndex |-> "1",
        index |-> "2", duration |-> "43", summary |-> "Second episode.",
        type |-> "episode"] >>

MockSearchResults ==
    << [ratingKey |-> "101", title |-> "The Matrix", year |-> "1999",
        type |-> "movie", Media |-> DefaultMedia,
        originallyAvailableAt |-> "1999-03-31"],
       [ratingKey |-> "201", title |-> "Breaking Bad", year |-> "2008",
        type |-> "show", Media |-> DefaultMedia,
        originallyAvailableAt |-> "2008-01-20"],
       [ratingKey |-> "301", title |-> "Lethal Weapon", year |-> "1987",
        type |-> "movie", Media |-> DefaultMedia,
        originallyAvailableAt |-> "1987-03-06"],
       [ratingKey |-> "302", title |-> "Lethal Weapon 2", year |-> "1989",
        type |-> "movie", Media |-> DefaultMedia,
        originallyAvailableAt |-> "1989-07-07"] >>

MockWatchlist ==
    << [ratingKey |-> "501", title |-> "Dune", year |-> "2021",
        type |-> "movie", duration |-> "155", rating |-> "8.0",
        summary |-> "A noble family becomes embroiled in a war for control over the galaxy's most valuable asset."],
       [ratingKey |-> "502", title |-> "The Last of Us", year |-> "2023",
        type |-> "show", childCount |-> "1",
        summary |-> "After a global pandemic destroys civilization, a hardened survivor takes charge of a 14-year-old girl who may be humanity's last hope."],
       [ratingKey |-> "503", title |-> "Oppenheimer", year |-> "2023",
        type |-> "movie", duration |-> "180", rating |-> "8.5",
        summary |-> "The story of American scientist J. Robert Oppenheimer and his role in the development of the atomic bomb."] >>

\* lastSeenAt is new Date().getTime() in the source: the time of the call
MockDevices ==
    << [id |-> "1", name |-> "Mock iPhone", platform |-> "iOS",
        clientIdentifier |-> "mock-iphone-1", createdAt |-> "1654131230",
        product |-> "Plex for iOS", productVersion |-> "8.0",
        platformVersion |-> "17.0", device |-> "iPhone", model |-> "iPhone 14",
        vendor |-> "Apple", provides |-> "[player,controller]", owned |-> "true",
        lastSeenAt |-> "now", publicAddress |-> "192.168.1.100"],
       [id |-> "2", name |-> "Mock Android TV", platform |-> "Android",
        clientIdentifier |-> "mock-android-tv-1", createdAt |-> "1654131240",
        product |-> "Plex for Android TV", productVersion |-> "9.0",
        platformVersion |-> "12.0", device |-> "Android TV",
        model |-> "SHIELD Android TV", vendor |-> "NVIDIA",
        provides |-> "[player]", owned |-> "true",
        lastSeenAt |-> "now", publicAddress |-> "192.168.1.101"] >>

----------------------------------------------------------------------------
(* Settled promises and thrown values *)

Resolve(v) == [kind |-> "resolve", value |-> v]

Reject(e) == [kind |-> "reject", error |-> e]

\* new Error(msg), or a TypeError raised by the runtime; a message is the tuple
\* of the parts its template string joins
Err(msg) == [instanceofError |-> TRUE, message |-> msg]

\* a thrown value that is no Error (throw "boom", throw {code: 500})
NonError == [instanceofError |-> FALSE, message |-> "boom"]

TypeErr == Err(<<"TypeError">>)

----------------------------------------------------------------------------
(* Strings the program inspects character by character are tuples of        *)
(* one-character strings.                                                   *)

\* the characters String.prototype.trim removes that occur in the model
Whitespace == {" ", "\t", "\n"}

RECURSIVE TrimStart(_)
TrimStart(q) ==
    IF q # <<>> /\ Head(q) \in Whitespace THEN TrimStart(Tail(q)) ELSE q

RECURSIVE TrimEnd(_)
TrimEnd(q) ==
    IF q # <<>> /\ q[Len(q)] \in Whitespace
    THEN TrimEnd(SubSeq(q, 1, Len(q) - 1)) ELSE q

\* String.prototype.trim
Trim(q) == TrimEnd(TrimStart(q))

\* String.prototype.toLowerCase on one character
LowerChar(c) ==
    CASE c = "T" -> "t" [] c = "M" -> "m" [] c = "B" -> "b" [] c = "L" -> "l"
      [] c = "W" -> "w" [] OTHER -> c

ToLowerCase(q) == [i \in 1..Len(q) |-> LowerChar(q[i])]

\* String.prototype.includes
Includes(s, sub) ==
    \E i \in 0..(Len(s) - Len(sub)) : SubSeq(s, i + 1, i + Len(sub)) = sub

\* the characters of the titles MockPlexClient.search filters on
Chars(title) ==
    CASE title = "The Matrix" ->
           <<"T", "h", "e", " ", "M", "a", "t", "r", "i", "x">>
      [] title = "Breaking Bad" ->
           <<"B", "r", "e", "a", "k", "i", "n", "g", " ", "B", "a", "d">>
      [] title = "Lethal Weapon" ->
           <<"L", "e", "t", "h", "a", "l", " ", "W", "e", "a", "p", "o", "n">>
      [] title = "Lethal Weapon 2" ->
           <<"L", "e", "t", "h", "a", "l", " ", "W", "e", "a", "p", "o", "n",
             " ", "2">>

\* filter?.toLowerCase() for the filter values of the model
LowerFilter(f) ==
    CASE f = "AVAILABLE" -> "available" [] f = "Available" -> "available"
      [] OTHER -> f

----------------------------------------------------------------------------
(* MockPlexClient operations: each resolves with fixture data *)

Mock_getLibraries == Resolve(Arr(MockLibraries))

\* the parameters default when undefined; libraryId, type and tag are only logged
Mock_getLibraryContents(libraryId, type, tag, start, size) ==
    Resolve([kind |-> "pair",
             items |-> Arr(Slice(MockContents, start, start + size)),
             totalSize |-> Len(MockContents)])

Mock_getMovies == Resolve(Arr(MockMovies))

Mock_getSeasons(showId) == Resolve(Arr(MockSeasons))

Mock_getEpisodes(seasonId) == Resolve(Arr(MockEpisodes))

MockTitleMatches(item, query) ==
    Includes(ToLowerCase(Chars(item.title)), ToLowerCase(query))

Mock_search(query) ==
    IF query # <<>>
    THEN Resolve(Arr(SelectSeq(MockSearchResults,
                               LAMBDA item : MockTitleMatches(item, query))))
    ELSE Resolve(Arr(MockSearchResults))

\* a filter that lets every item through
MockAvailableAll(item) == TRUE

MockAvailable(item) == item.ratingKey = "501" \/ item.ratingKey = "503"

Mock_getWatchList(filter) ==
    IF filter # Undefined /\ LowerFilter(filter) = "available"
    THEN Resolve(Arr(SelectSeq(MockWatchlist, MockAvailable)))
    ELSE Resolve(Arr(MockWatchlist))

Mock_getDevices == Resolve(Arr(MockDevices))

----------------------------------------------------------------------------
(* Bounds of the model *)

\* the longest list an upstream response carries (other than a catalog page)
MaxItems == 2

\* the longest search query
MaxQueryLen == 2

\* start and size range over -MaxNegative .. Len(MockContents) + 1
MaxNegative == 2

----------------------------------------------------------------------------
(* What the upstream media server may hold and answer *)

ItemMovie ==
    [ratingKey |-> "11", title |-> "Alien", year |-> "1979", type |-> "movie",
     duration |-> "7020000", rating |-> "8.5", summary |-> "In space.",
     Media |-> Arr(<< [videoCodec |-> "h264"],
                      [videoCodec |-> "hevc", optimizedForStreaming |-> "0"] >>)]

ItemMovieBare == [ratingKey |-> "12", title |-> "Heat", type |-> "movie"]

ItemShow ==
    [ratingKey |-> "21", title |-> "Lost", year |-> "2004", type |-> "show",
     childCount |-> "6", summary |-> "An island.", Media |-> [kind |-> "null"]]

ItemSeason ==
    [ratingKey |-> "31", title |-> "Season 1", type |-> "season",
     index |-> "1", leafCount |-> "10", Media |-> Arr(<<>>)]

ItemEpisode ==
    [ratingKey |-> "41", title |-> "Pilot", type |-> "episode",
     parentIndex |-> "1", index |-> "1", duration |-> "45",
     summary |-> "First.", Media |-> [kind |-> "object"]]

ItemUntyped ==
    [ratingKey |-> "51", title |-> "Clip", year |-> "2001",
     Media |-> Arr(<< [optimizedForStreaming |-> "false"] >>)]

\* an object of another shape altogether
ItemForeign == [foo |-> "bar"]

UpstreamItems ==
    {ItemMovie, ItemMovieBare, ItemShow, ItemSeason, ItemEpisode, ItemUntyped,
     ItemForeign, JsNull}

UpstreamLibraryEntries ==
    {[key |-> "1", title |-> "Films", type |-> "movie"],
     [key |-> "2", title |-> "Series", type |-> "show"],
     ItemForeign, JsNull}

UpstreamDeviceEntries ==
    {[clientIdentifier |-> "dev-a", name |-> "TV", product |-> "Plex for LG"],
     [clientIdentifier |-> "dev-b", name |-> "Phone"],
     ItemForeign, JsNull}

\* every list of at most MaxItems entries
ListsOf(S) == UNION {[1..n -> S] : n \in 0..MaxItems}

\* a list property of a response: a list, or something that is no list
ListValues(S) ==
    {Arr(l) : l \in ListsOf(S)} \cup {[kind |-> "object"], [kind |-> "null"]}

\* what a rejected upstream call rejects with
ThrownValues == {Err(<<"Network error">>), NonError}

\* the items the upstream holds in library section n, in its order; section 5
\* holds more items than one default page
UpstreamCatalog(n) ==
    CASE n = 1 -> <<ItemMovie, ItemShow, ItemMovieBare>>
      [] n = 2 -> <<ItemShow, ItemSeason, ItemEpisode, ItemUntyped>>
      [] n = 5 ->
           LET keys == <<"501", "502", "503", "504", "505", "506", "507",
                         "508", "509", "510", "511", "512", "513", "514",
                         "515", "516", "517", "518", "519", "520", "521">>
           IN [i \in DOMAIN keys |->
                 [ratingKey |-> keys[i], title |-> "Reel", type |-> "movie"]]
      [] OTHER -> <<>>

\* parseInt(id, 10) for the ids of the model; 0 stands for NaN
ParseInt(id) ==
    CASE id = "1" -> 1 [] id = "2" -> 2 [] id = "5" -> 5 [] id = "7" -> 7
      [] OTHER -> 0

----------------------------------------------------------------------------
(* Answers of the plexjs SDK and of fetch, as PlexClient sees them *)

SdkThrows == {[kind |-> "throw", error |-> e] : e \in ThrownValues}

SdkOk(r) == [kind |-> "ok", response |-> r]

\* answers to an SDK call whose list is response.object.mediaContainer[listKey]:
\* a rejection, no object, an object with no media container, a container with
\* no list, and a container with each list value
SdkResponses(listKey, S) ==
    SdkThrows
    \cup {SdkOk([statusCode |-> "200"]),
          SdkOk([statusCode |-> "200", object |-> [size |-> "0"]]),
          SdkOk([statusCode |-> "200",
                 object |-> [mediaContainer |-> [size |-> "0"]]])}
    \cup {SdkOk([statusCode |-> "200",
                 object |-> [mediaContainer |-> (listKey :> v)]]) :
            v \in ListValues(S)}

\* answers to watchlist.getWatchList: the list is response.object.metadata
WatchlistResponses ==
    SdkThrows
    \cup {SdkOk([statusCode |-> "200"]),
          SdkOk([statusCode |-> "200", object |-> [size |-> "0"]])}
    \cup {SdkOk([statusCode |-> "200", object |-> [metadata |-> v]]) :
            v \in ListValues(UpstreamItems)}

\* the page a server holding catalog returns for start and size
UpstreamPage(catalog, start, size) ==
    SubSeq(catalog, Max(start, 0) + 1,
           Min(Max(start, 0) + Max(size, 0), Len(catalog)))

FetchOk(data) ==
    [kind |-> "response", ok |-> TRUE, statusText |-> "OK",
     body |-> [kind |-> "json", data |-> data]]

\* answers to GET /library/sections/n/all with the container start and size:
\* a network failure, a non-success status, a body that is no JSON, a body
\* with no MediaContainer, and a MediaContainer with or without Metadata and
\* with or without totalSize
FetchResponses(n, start, size) ==
    SdkThrows
    \cup {[kind |-> "response", ok |-> FALSE, statusText |-> t] :
            t \in {"Not Found", "Unauthorized"}}
    \cup {[kind |-> "response", ok |-> TRUE, statusText |-> "OK",
           body |-> [kind |-> "invalid"]]}
    \cup {FetchOk([status |-> "empty"])}
    \cup {FetchOk([MediaContainer |-> mc]) :
            mc \in LET page == UpstreamPage(UpstreamCatalog(n), start, size)
                       total == Len(UpstreamCatalog(n))
                   IN {[size |-> Len(page)],
                       [size |-> Len(page), totalSize |-> total],
                       [size |-> Len(page), Metadata |-> Arr(page)],
                       [size |-> Len(page), Metadata |-> Arr(page),
                        totalSize |-> total],
                       [size |-> Len(page), Metadata |-> [kind |-> "object"],
                        totalSize |-> total]}}

----------------------------------------------------------------------------
(* PlexClient operations: each maps the upstream's answer r to the way the   *)
(* operation's promise settles (a caught error is logged and thrown again)  *)

\* o[k] || [] for a list property
ListOrEmpty(o, k) ==
    IF k \in DOMAIN o /\ o[k].kind # "null" THEN o[k] ELSE Arr(<<>>)

\* response.object?.mediaContainer.directory || []
Plex_getLibraries(r) ==
    IF r.kind = "throw" THEN Reject(r.error)
    ELSE IF "object" \notin DOMAIN r.response THEN Resolve(Arr(<<>>))
    ELSE IF "mediaContainer" \notin DOMAIN r.response.object
         THEN Reject(TypeErr)
    ELSE Resolve(ListOrEmpty(r.response.object.mediaContainer, "directory"))

\* response.object?.mediaContainer, then mediaContainer?.[listKey] || []
PlexContainerList(r, listKey) ==
    IF r.kind = "throw" THEN Reject(r.error)
    ELSE IF "object" \notin DOMAIN r.response THEN Resolve(Arr(<<>>))
    ELSE IF "mediaContainer" \notin DOMAIN r.response.object
         THEN Resolve(Arr(<<>>))
    ELSE Resolve(ListOrEmpty(r.response.object.mediaContainer, listKey))

Plex_getSeasons(r) == PlexContainerList(r, "metadata")

Plex_getEpisodes(r) == PlexContainerList(r, "metadata")

Plex_search(r) == PlexContainerList(r, "metadata")

Plex_getDevices(r) == PlexContainerList(r, "device")

\* if (!responseObj) return []; return responseObj.metadata || []
Plex_getWatchList(r) ==
    IF r.kind = "throw" THEN Reject(r.error)
    ELSE IF "object" \notin DOMAIN r.response THEN Resolve(Arr(<<>>))
    ELSE Resolve(ListOrEmpty(r.response.object, "metadata"))

\* items.length: undefined when items is no array
WithLength(pair) ==
    IF IsArray(pair.items)
    THEN [pair EXCEPT !.totalSize = Len(pair.items.elems)]
    ELSE [kind |-> "pair", items |-> pair.items]

\* data.MediaContainer?.totalSize || items.length
PlexTotalSize(data, pair) ==
    IF "MediaContainer" \in DOMAIN data
       /\ "totalSize" \in DOMAIN data.MediaContainer
       /\ data.MediaContainer.totalSize # 0
    THEN [pair EXCEPT !.totalSize = data.MediaContainer.totalSize]
    ELSE WithLength(pair)

\* data.MediaContainer?.Metadata || []
PlexItems(data) ==
    IF "MediaContainer" \in DOMAIN data
    THEN ListOrEmpty(data.MediaContainer, "Metadata")
    ELSE Arr(<<>>)

\* a request whose container start and size are kept from going below zero
LibraryContentsRequestClamped(libraryId, type, tag, start, size) ==
    [op |-> "fetch", section |-> ParseInt(libraryId), type |-> type,
     containerStart |-> Max(start, 0), containerSize |-> Max(size, 0)]

\* the request getLibraryContents sends: GET /library/sections/${numericId}/all
\* ?type=${type}&X-Plex-Container-Start=${start}&X-Plex-Container-Size=${size}
\* (the tag is not part of it)
LibraryContentsRequest(libraryId, type, tag, start, size) ==
    [op |-> "fetch", section |-> ParseInt(libraryId), type |-> type,
     containerStart |-> start, containerSize |-> size]

Plex_getLibraryContents(r) ==
    IF r.kind = "throw" THEN Reject(r.error)
    ELSE IF ~r.ok
         THEN Reject(Err(<<"Failed to fetch library contents: ", r.statusText>>))
    ELSE IF r.body.kind = "invalid" THEN Reject(Err(<<"SyntaxError">>))
    ELSE Resolve(PlexTotalSize(r.body.data,
                               [kind |-> "pair", items |-> PlexItems(r.body.data),
                                totalSize |-> 0]))

----------------------------------------------------------------------------
(* The tool handlers' reshaping (plex-mcp-server-ts.ts) *)

\* an object literal {out: item.in, ...}: m maps each output key to the
\* property it is read from
Pick(item, m) == [k \in DOMAIN m |-> Get(item, m[k])]

\* reading a property of null or undefined raises a TypeError
MapFaults(list) ==
    ~IsArray(list) \/ \E i \in DOMAIN list.elems : IsNullish(list.elems[i])

BaseInfo ==
    [id |-> "ratingKey", title |-> "title", year |-> "year", type |-> "type"]

MovieInfo ==
    [id |-> "ratingKey", title |-> "title", year |-> "year", type |-> "type",
     duration |-> "duration", rating |-> "rating", summary |-> "summary"]

ShowInfo ==
    [id |-> "ratingKey", title |-> "title", year |-> "year", type |-> "type",
     seasons |-> "childCount", summary |-> "summary"]

\* a projection that skips the discriminant and copies the movie fields always
MediaItemOfUndiscriminated(item) == Pick(item, MovieInfo)

\* the projection of get-library-contents (mediaItems) and of get-watchlist
MediaItemOf(item) ==
    IF Get(item, "type") = "movie" THEN Pick(item, MovieInfo)
    ELSE IF Get(item, "type") = "show" THEN Pick(item, ShowInfo)
    ELSE Pick(item, BaseInfo)

\* a spread in the wrong order: the default overwrites the flag an entry has
WithStreamingFlagOverwritten(mediaItem) ==
    [k \in DOMAIN mediaItem \cup {"optimizedForStreaming"} |->
       IF k = "optimizedForStreaming" THEN "1" ELSE mediaItem[k]]

\* {...mediaItem, optimizedForStreaming: flag !== undefined ? flag : 1}
WithStreamingFlag(mediaItem) ==
    IF "optimizedForStreaming" \in DOMAIN mediaItem THEN mediaItem
    ELSE ("optimizedForStreaming" :> "1") @@ mediaItem

\* the callback that builds responseObject.MediaContainer.Metadata
NormalizeMedia(item) ==
    IF "Media" \in DOMAIN item /\ item.Media.kind = "array"
    THEN [item EXCEPT !.Media =
            Arr([i \in DOMAIN item.Media.elems |->
                   WithStreamingFlag(item.Media.elems[i])])]
    ELSE IF "Media" \notin DOMAIN item \/ item.Media.kind = "null"
         THEN ("Media" :> Arr(<<[optimizedForStreaming |-> "1"]>>)) @@ item
    ELSE item

MetadataOf(list) == [i \in DOMAIN list.elems |-> NormalizeMedia(list.elems[i])]

\* JSON.stringify of a list of projections
StringifyAll(list) == [i \in DOMAIN list |-> Stringify(list[i])]

\* the success return: one text entry holding JSON.stringify(json)
Success(json) == [content |-> <<[type |-> "text", json |-> json]>>]

\* a catch block that reports no more than 'Unknown error'
ErrorPayloadGeneric(prefix, error) ==
    [content |-> <<[type |-> "text", text |-> <<prefix, "Unknown error">>]>>,
     isError |-> TRUE]

\* the catch block's return
ErrorPayload(prefix, error) ==
    [content |-> <<[type |-> "text",
                    text |-> <<prefix>> \o (IF error.instanceofError
                                            THEN error.message
                                            ELSE <<"Unknown error">>)]>>,
     isError |-> TRUE]

LibraryInfo == [id |-> "key", title |-> "title", type |-> "type"]

MovieItemInfo ==
    [id |-> "ratingKey", title |-> "title", year |-> "year",
     duration |-> "duration", rating |-> "rating", summary |-> "summary"]

SeasonInfo ==
    [id |-> "ratingKey", title |-> "title", seasonNumber |-> "index",
     episodeCount |-> "leafCount"]

EpisodeInfo ==
    [id |-> "ratingKey", title |-> "title", seasonNumber |-> "parentIndex",
     episodeNumber |-> "index", duration |-> "duration", summary |-> "summary"]

SearchInfo ==
    [id |-> "ratingKey", title |-> "title", type |-> "type", year |-> "year"]

DeviceInfo ==
    [id |-> "clientIdentifier", name |-> "name", product |-> "product",
     productVersion |-> "productVersion", platform |-> "platform",
     platformVersion |-> "platformVersion", device |-> "device",
     model |-> "model", vendor |-> "vendor", provides |-> "provides",
     owned |-> "owned", lastSeenAt |-> "lastSeenAt",
     publicAddress |-> "publicAddress"]

\* list.map(item => ({...})) followed by JSON.stringify
Projected(list, m) ==
    StringifyAll([i \in DOMAIN list.elems |-> Pick(list.elems[i], m)])

\* a handler with the await outside its try block: a rejection of the client
\* operation rejects the handler
ListHandlerAwaitOutsideTry(c, prefix, key, m) ==
    IF c.kind = "reject" THEN [thrown |-> c.error]
    ELSE IF MapFaults(c.value) THEN ErrorPayload(prefix, TypeErr)
    ELSE Success(key :> Projected(c.value, m))

\* a handler whose try block maps the client's list into {[key]: [...]}
ListHandler(c, prefix, key, m) ==
    IF c.kind = "reject" THEN ErrorPayload(prefix, c.error)
    ELSE IF MapFaults(c.value) THEN ErrorPayload(prefix, TypeErr)
    ELSE Success(key :> Projected(c.value, m))

GetLibrariesHandler(c) ==
    ListHandler(c, "Error getting libraries: ", "libraries", LibraryInfo)

GetSeasonsHandler(c) ==
    ListHandler(c, "Error getting seasons: ", "seasons", SeasonInfo)

GetEpisodesHandler(c) ==
    ListHandler(c, "Error getting episodes: ", "episodes", EpisodeInfo)

GetDevicesHandler(c) ==
    ListHandler(c, "Error getting devices: ", "devices", DeviceInfo)

\* the handler's local mediaItems (or the watchlist's projection), before
\* JSON.stringify; empty when the try block did not get that far
MediaItemsOf(c, list) ==
    IF c.kind = "reject" \/ MapFaults(list) THEN <<>>
    ELSE [i \in DOMAIN list.elems |-> MediaItemOf(list.elems[i])]

\* totalSize: result.totalSize, left out by JSON.stringify when undefined
WithTotalSize(pair, o) ==
    IF "totalSize" \in DOMAIN pair THEN ("totalSize" :> pair.totalSize) @@ o
    ELSE o

GetLibraryContentsHandler(c) ==
    IF c.kind = "reject"
    THEN ErrorPayload("Error getting library contents: ", c.error)
    ELSE IF MapFaults(c.value.items)
         THEN ErrorPayload("Error getting library contents: ", TypeErr)
    ELSE Success(WithTotalSize(c.value,
           [media |-> StringifyAll(MediaItemsOf(c, c.value.items)),
            object |->
              [MediaContainer |->
                 WithTotalSize(c.value,
                   [content |-> "library items",
                    Metadata |-> MetadataOf(c.value.items)])]]))

GetMoviesHandler(c) ==
    IF c.kind = "reject" THEN ErrorPayload("Error getting movies: ", c.error)
    ELSE IF MapFaults(c.value)
         THEN ErrorPayload("Error getting movies: ", TypeErr)
    ELSE Success([movies |-> Projected(c.value, MovieItemInfo),
                  object |-> [MediaContainer |->
                                [content |-> "movies",
                                 Metadata |-> MetadataOf(c.value)]]])

\* the part of the search handler that follows await plexClient.search(query)
SearchHandler(c) ==
    IF c.kind = "reject" THEN ErrorPayload("Error searching: ", c.error)
    ELSE IF MapFaults(c.value) THEN ErrorPayload("Error searching: ", TypeErr)
    ELSE Success([results |-> Projected(c.value, SearchInfo),
                  object |-> [MediaContainer |->
                                [content |-> "search results",
                                 Metadata |-> MetadataOf(c.value)]]])

\* the return of the search handler's guard: no await, no client call
SearchQueryRequired ==
    [content |-> <<[type |-> "text",
                    text |-> <<"Error: Search query is required">>]>>,
     isError |-> TRUE]

\* a guard without the trim: !query only
BlankQueryUntrimmed(query) == query = <<>>

\* !query || query.trim() === ''
BlankQuery(query) == query = <<>> \/ Trim(query) = <<>>

GetWatchlistHandler(c) ==
    IF c.kind = "reject" THEN ErrorPayload("Error getting watchlist: ", c.error)
    ELSE IF MapFaults(c.value)
         THEN ErrorPayload("Error getting watchlist: ", TypeErr)
    ELSE Success([watchlist |-> StringifyAll(MediaItemsOf(c, c.value))])

\* the handler of tool t resumed with the settled client call c
HandlerResult(t, c) ==
    CASE t = "get-libraries" -> GetLibrariesHandler(c)
      [] t = "get-library-contents" -> GetLibraryContentsHandler(c)
      [] t = "get-movies" -> GetMoviesHandler(c)
      [] t = "get-seasons" -> GetSeasonsHandler(c)
      [] t = "get-episodes" -> GetEpisodesHandler(c)
      [] t = "search" -> SearchHandler(c)
      [] t = "get-watchlist" -> GetWatchlistHandler(c)
      [] t = "get-devices" -> GetDevicesHandler(c)

HandlerLocals(t, c) ==
    CASE t = "get-library-contents" ->
           IF c.kind = "reject" THEN <<>> ELSE MediaItemsOf(c, c.value.items)
      [] t = "get-watchlist" ->
           IF c.kind = "reject" THEN <<>> ELSE MediaItemsOf(c, c.value)
      [] OTHER -> <<>>

----------------------------------------------------------------------------
(* PlexClient.getMovies: getLibraries, then one getLibraryContents(lib.key)  *)
(* per movie library with the default type, tag, start and size, joined by  *)
(* Promise.all                                                              *)

DefaultStart == 0

DefaultSize == 20

\* a filter that lets shows through as well
IsMovieOrShow(item) == Get(item, "type") \in {"movie", "show"}

IsMovie(item) == Get(item, "type") = "movie"

\* movieResults.flatMap(result => result.items): an items value that is no
\* array stays one element
RECURSIVE FlatItems(_)
FlatItems(results) ==
    IF results = <<>> THEN <<>>
    ELSE (IF IsArray(Head(results).value.items)
          THEN Head(results).value.items.elems
          ELSE <<[notAnArray |-> "true"]>>) \o FlatItems(Tail(results))

\* r.libraries answers getAllLibraries, r.fetches[i] answers the fetch for the
\* i-th movie library, r.first is the fetch that rejected first (0: none did)
Plex_getMovies(r) ==
    LET libraries == Plex_getLibraries(r.libraries) IN
    IF libraries.kind = "reject" THEN Reject(libraries.error)
    ELSE IF MapFaults(libraries.value) THEN Reject(TypeErr)
    ELSE LET movieLibraries == SelectSeq(libraries.value.elems, IsMovie)
             movieResults == [i \in DOMAIN movieLibraries |->
                                Plex_getLibraryContents(r.fetches[i])]
         IN IF movieLibraries = <<>> THEN Resolve(Arr(<<>>))
            ELSE IF r.first # 0 THEN Reject(movieResults[r.first].error)
            ELSE IF MapFaults(Arr(FlatItems(movieResults))) THEN Reject(TypeErr)
            ELSE Resolve(Arr(SelectSeq(FlatItems(movieResults), IsMovie)))

\* the movie libraries an answer to getAllLibraries leads getMovies to fetch
MovieLibrariesOf(libs) ==
    LET libraries == Plex_getLibraries(libs) IN
    IF libraries.kind = "reject" \/ MapFaults(libraries.value) THEN <<>>
    ELSE SelectSeq(libraries.value.elems, IsMovie)

Rejecting(fetches) ==
    {i \in DOMAIN fetches : Plex_getLibraryContents(fetches[i]).kind = "reject"}

\* every way the upstream may answer one getMovies call
MoviesResponses ==
    UNION {
      LET movieLibraries == MovieLibrariesOf(libs) IN
      UNION {
        {[libraries |-> libs, fetches |-> fetches, first |-> first] :
           first \in IF Rejecting(fetches) = {} THEN {0} ELSE Rejecting(fetches)}
        : fetches \in
            {f \in [DOMAIN movieLibraries ->
                      UNION {FetchResponses(ParseInt(movieLibraries[i].key),
                                            DefaultStart, DefaultSize) :
                             i \in DOMAIN movieLibraries}] :
               \A i \in DOMAIN movieLibraries :
                 f[i] \in FetchResponses(ParseInt(movieLibraries[i].key),
                                         DefaultStart, DefaultSize)}}
      : libs \in SdkResponses("directory", UpstreamLibraryEntries)}

----------------------------------------------------------------------------
(* The tool invocations *)

\* the operations interface IPlexClient declares
InterfaceOperations ==
    {"getLibraries", "getLibraryContents", "getMovies", "getSeasons",
     "getEpisodes", "search", "getWatchList", "getDevices", "playMedia"}

\* the methods the class of client c defines
OperationsOf(c) ==
    IF c = "mock"
    THEN {"getLibraries", "getLibraryContents", "getMovies", "getSeasons",
          "getEpisodes", "search", "getWatchList", "getDevices"}
    ELSE {"getLibraries", "getLibraryContents", "getMovies", "getSeasons",
          "getEpisodes", "search", "getWatchList", "getDevices", "playMedia"}

ToolNames ==
    <<"get-libraries", "get-library-contents", "get-movies", "get-seasons",
      "get-episodes", "search", "get-watchlist", "get-devices">>

NoArgs == [k \in {} |-> k]

\* an optional parameter: left out, or one of S
Optional(k, S) == {NoArgs} \cup {k :> v : v \in S}

TagNames ==
    {"newest", "recentlyAdded", "recentlyViewed", "onDeck", "unwatched",
     "collection"}

Positions == (0 - MaxNegative)..(Len(MockContents) + 1)

QueryChars == {" ", "\t", "e", "L", "2"}

Queries == UNION {[1..n -> QueryChars] : n \in 0..MaxQueryLen}

\* the arguments the schema of tool t accepts, within the bounds
ArgsOf(t) ==
    CASE t = "get-library-contents" ->
           {[libraryId |-> l] @@ ty @@ tg @@ st @@ sz :
              l \in {"1", "2"}, ty \in Optional("type", {2}),
              tg \in Optional("tag", TagNames),
              st \in Optional("start", Positions),
              sz \in Optional("size", Positions)}
      [] t = "get-seasons" -> {[showId |-> i] : i \in {"21", "x"}}
      [] t = "get-episodes" -> {[seasonId |-> i] : i \in {"31", "x"}}
      [] t = "search" -> {[query |-> q] : q \in Queries}
      [] t = "get-watchlist" ->
           Optional("filter", {"all", "available", "released"})
      [] OTHER -> {NoArgs}

\* an argument with its destructuring default
Arg(a, k, default) == IF k \in DOMAIN a THEN a[k] ELSE default

\* a conversion that ignores the tag
TagEnumAlwaysNewest(tag) == "Tag.Newest"

\* the conversion of the tag string to the Tag enum
TagEnum(tag) ==
    IF tag = "newest" THEN "Tag.Newest"
    ELSE IF tag = "recentlyAdded" THEN "Tag.RecentlyAdded"
    ELSE IF tag = "recentlyViewed" THEN "Tag.RecentlyViewed"
    ELSE IF tag = "onDeck" THEN "Tag.OnDeck"
    ELSE IF tag = "unwatched" THEN "Tag.Unwatched"
    ELSE IF tag = "collection" THEN "Tag.Collection"
    ELSE "Tag.Newest"

\* the client operation the handler of t awaits, with the arguments it passes
ClientCall(t, a) ==
    CASE t = "get-libraries" -> [op |-> "getLibraries", args |-> NoArgs]
      [] t = "get-library-contents" ->
           [op |-> "getLibraryContents",
            args |-> [libraryId |-> a.libraryId, type |-> Arg(a, "type", 1),
                      tag |-> TagEnum(Arg(a, "tag", "newest")),
                      start |-> Arg(a, "start", 0),
                      size |-> Arg(a, "size", 20)]]
      [] t = "get-movies" -> [op |-> "getMovies", args |-> NoArgs]
      [] t = "get-seasons" ->
           [op |-> "getSeasons", args |-> [showId |-> a.showId]]
      [] t = "get-episodes" ->
           [op |-> "getEpisodes", args |-> [seasonId |-> a.seasonId]]
      [] t = "search" -> [op |-> "search", args |-> [query |-> a.query]]
      [] t = "get-watchlist" ->
           [op |-> "getWatchList",
            args |-> [filter |-> Arg(a, "filter", Undefined)]]
      [] t = "get-devices" -> [op |-> "getDevices", args |-> NoArgs]

\* how MockPlexClient settles call
MockSettles(call) ==
    CASE call.op = "getLibraries" -> Mock_getLibraries
      [] call.op = "getLibraryContents" ->
           Mock_getLibraryContents(call.args.libraryId, call.args.type,
                                   call.args.tag, call.args.start,
                                   call.args.size)
      [] call.op = "getMovies" -> Mock_getMovies
      [] call.op = "getSeasons" -> Mock_getSeasons(call.args.showId)
      [] call.op = "getEpisodes" -> Mock_getEpisodes(call.args.seasonId)
      [] call.op = "search" -> Mock_search(call.args.query)
      [] call.op = "getWatchList" -> Mock_getWatchList(call.args.filter)
      [] call.op = "getDevices" -> Mock_getDevices

\* the answers the upstream may give to the requests PlexClient issues for call
UpstreamResponses(call) ==
    CASE call.op = "getLibraries" ->
           SdkResponses("directory", UpstreamLibraryEntries)
      [] call.op = "getLibraryContents" ->
           FetchResponses(ParseInt(call.args.libraryId), call.args.start,
                          call.args.size)
      [] call.op = "getMovies" -> MoviesResponses
      [] call.op \in {"getSeasons", "getEpisodes", "search"} ->
           SdkResponses("metadata", UpstreamItems)
      [] call.op = "getWatchList" -> WatchlistResponses
      [] call.op = "getDevices" -> SdkResponses("device", UpstreamDeviceEntries)

\* how PlexClient settles call when the upstream answers r
PlexSettles(call, r) ==
    CASE call.op = "getLibraries" -> Plex_getLibraries(r)
      [] call.op = "getLibraryContents" -> Plex_getLibraryContents(r)
      [] call.op = "getMovies" -> Plex_getMovies(r)
      [] call.op = "getSeasons" -> Plex_getSeasons(r)
      [] call.op = "getEpisodes" -> Plex_getEpisodes(r)
      [] call.op = "search" -> Plex_search(r)
      [] call.op = "getWatchList" -> Plex_getWatchList(r)
      [] call.op = "getDevices" -> Plex_getDevices(r)

----------------------------------------------------------------------------
(* What the PlexClient operations write through the Logger.  An entry's text *)
(* is the tuple of the parts its template strings join; the timestamp is     *)
(* left out.                                                                 *)

\* Logger.error(message, error): `${message} ${errorMessage}`
LoggerError(message, error) ==
    [level |-> "ERROR",
     text |-> message \o <<" ">> \o (IF error.instanceofError
                                     THEN error.message
                                     ELSE <<"Unknown error">>)]

\* Logger.info(message)
LoggerInfo(message) == [level |-> "INFO", text |-> message]

\* Logger.warn(message)
LoggerWarn(message) == [level |-> "WARN", text |-> message]

\* the entries getMovies and the calls it makes write when the upstream
\* answers r; the entries of the rejected fetches are listed in library order
MoviesLogEntries(r) ==
    LET libraries == Plex_getLibraries(r.libraries)
        c == Plex_getMovies(r)
        movieLibraries == MovieLibrariesOf(r.libraries)
        rejected == SelectSeq([i \in DOMAIN movieLibraries |-> i],
                              LAMBDA i : i \in Rejecting(r.fetches))
    IN (IF libraries.kind = "reject"
        THEN <<LoggerError(<<"Error fetching libraries:">>, libraries.error)>>
        ELSE IF MapFaults(libraries.value) THEN <<>>
        ELSE IF movieLibraries = <<>>
             THEN <<LoggerWarn(<<"No movie libraries found">>)>>
        ELSE [k \in DOMAIN rejected |->
                LoggerError(<<"Error fetching content from library ",
                              movieLibraries[rejected[k]].key, ":">>,
                            Plex_getLibraryContents(
                              r.fetches[rejected[k]]).error)])
       \o (IF c.kind = "reject"
           THEN <<LoggerError(<<"Error fetching movies:">>, c.error)>>
           ELSE <<>>)

\* the entries the PlexClient operation of call writes when the upstream
\* answers r, on a client constructed with accessToken
PlexLogEntries(call, r, accessToken) ==
    LET c == PlexSettles(call, r)
        caught(message) ==
          IF c.kind = "reject" THEN <<LoggerError(message, c.error)>> ELSE <<>>
    IN CASE call.op = "getLibraries" -> caught(<<"Error fetching libraries:">>)
         [] call.op = "getLibraryContents" ->
              caught(<<"Error fetching content from library ",
                       call.args.libraryId, ":">>)
         [] call.op = "getMovies" -> MoviesLogEntries(r)
         [] call.op = "getSeasons" ->
              caught(<<"Error fetching seasons for show ", call.args.showId,
                       ":">>)
         [] call.op = "getEpisodes" ->
              caught(<<"Error fetching episodes for season ",
                       call.args.seasonId, ":">>)
         [] call.op = "search" ->
              caught(<<"Error searching for \"">> \o call.args.query
                       \o <<"\":">>)
         [] call.op = "getWatchList" ->
              <<LoggerInfo(<<"Getting watchlist with filter: ", accessToken>>)>>
              \o (IF r.kind = "throw" THEN <<>>
                  ELSE <<LoggerInfo(<<"JSON.stringify(response, null, 2)">>)>>)
              \o caught(<<"Error fetching watchlist:">>)
         [] call.op = "getDevices" -> caught(<<"Error fetching devices:">>)

None == [kind |-> "none"]

ToolInit ==
    /\ pc = "idle"
    /\ tool = "none"
    /\ args = NoArgs
    /\ clientCalls = <<>>
    /\ upstream = None
    /\ clientResult = None
    /\ mediaItems = <<>>
    /\ toolResult = None

\* the host invokes tool t with arguments a; the handler runs to its await,
\* or, for search, to the return of its guard
Invoke(t, a) ==
    /\ tool' = t
    /\ args' = a
    /\ upstream' = None
    /\ clientResult' = None
    /\ mediaItems' = <<>>
    /\ IF t = "search" /\ BlankQuery(a.query)
       THEN /\ clientCalls' = <<>>
            /\ toolResult' = SearchQueryRequired
            /\ pc' = "done"
       ELSE /\ clientCalls' = <<ClientCall(t, a)>>
            /\ toolResult' = None
            /\ pc' = "awaiting"
    /\ UNCHANGED <<client, mainVars, play, movies, routes>>

\* the awaited MockPlexClient operation resolves and the handler runs on to
\* its return
MockSettled ==
    /\ pc = "awaiting"
    /\ client = "mock"
    /\ LET c == MockSettles(clientCalls[1]) IN
         /\ clientResult' = c
         /\ mediaItems' = HandlerLocals(tool, c)
         /\ toolResult' = HandlerResult(tool, c)
    /\ upstream' = [kind |-> "fixture"]
    /\ pc' = "done"
    /\ UNCHANGED <<client, tool, args, clientCalls, mainVars, play, movies, routes>>

\* the upstream answers r, the awaited PlexClient operation settles and the
\* handler runs on to its return
UpstreamSettled(r) ==
    /\ upstream' =
         [kind |-> "answer",
          request |->
            IF clientCalls[1].op = "getLibraryContents"
            THEN LibraryContentsRequest(
                   clientCalls[1].args.libraryId, clientCalls[1].args.type,
                   clientCalls[1].args.tag, clientCalls[1].args.start,
                   clientCalls[1].args.size)
            ELSE [op |-> clientCalls[1].op],
          response |-> r]
    /\ LET c == PlexSettles(clientCalls[1], r) IN
         /\ clientResult' = c
         /\ mediaItems' = HandlerLocals(tool, c)
         /\ toolResult' = HandlerResult(tool, c)
    /\ pc' = "done"
    /\ UNCHANGED <<client, tool, args, clientCalls, mainVars, play, movies, routes>>

\* a host that may also drop an invocation whose client call is pending
RespondOrCancel ==
    /\ pc \in {"awaiting", "done"}
    /\ pc' = "idle"
    /\ tool' = "none"
    /\ args' = NoArgs
    /\ clientCalls' = <<>>
    /\ upstream' = None
    /\ clientResult' = None
    /\ mediaItems' = <<>>
    /\ toolResult' = None
    /\ UNCHANGED <<client, mainVars, play, movies, routes>>

\* the host takes the response; the next invocation may start
Respond ==
    /\ pc = "done"
    /\ pc' = "idle"
    /\ tool' = "none"
    /\ args' = NoArgs
    /\ clientCalls' = <<>>
    /\ upstream' = None
    /\ clientResult' = None
    /\ mediaItems' = <<>>
    /\ toolResult' = None
    /\ UNCHANGED <<client, mainVars, play, movies, routes>>

ToolNext ==
    \/ /\ pc = "idle"
       /\ \E i \in DOMAIN ToolNames : \E a \in ArgsOf(ToolNames[i]) :
            Invoke(ToolNames[i], a)
    \/ MockSettled
    \/ /\ pc = "awaiting"
       /\ client = "upstream"
       /\ \E r \in UpstreamResponses(clientCalls[1]) : UpstreamSettled(r)
    \/ Respond

----------------------------------------------------------------------------
(* main: the startup sequence and the two HTTP routes *)

\* the SSE connections and the POSTs the model follows
MaxSse == 2

MaxPosts == 2

\* !v for a string or undefined
Falsy(v) == v = Undefined \/ v = ""

TokenRequired ==
    Err(<<"Plex token is required",
          ". Set it in the constructor options or as PLEX_TOKEN in your .env file.">>)

\* new PlexClient({token, baseUrl}) under process.env e:
\* options.token || process.env.PLEX_TOKEN || ''
PlexClientConstructor(token, e) ==
    LET accessToken == IF ~Falsy(token) THEN token
                       ELSE IF ~Falsy(e.PLEX_TOKEN) THEN e.PLEX_TOKEN
                       ELSE ""
    IN IF Falsy(accessToken) THEN [kind |-> "throw", error |-> TokenRequired]
       ELSE [kind |-> "ok", accessToken |-> accessToken]

\* a catch block that logs the error and goes on with a MockPlexClient
ConstructorCatchFallsBack(error) == [kind |-> "fallback", error |-> error]

\* what the catch block around new PlexClient does with the caught error
ConstructorCatch(error) == [kind |-> "rejected", error |-> error]

MainInit ==
    /\ mainPc = "start"
    /\ env \in [USE_MOCK_PLEX : {Undefined, "true", "false", "1"},
                PLEX_TOKEN : {Undefined, "", "secret"}]
    /\ plexClient = "unset"
    /\ constructed = 0
    /\ registered = <<>>
    /\ mainResult = [kind |-> "pending"]
    /\ serverMade = FALSE
    /\ listening = FALSE
    /\ sseTransport = 0
    /\ connects = <<>>
    /\ sseOpened = 0
    /\ posts = <<>>

\* if (process.env.USE_MOCK_PLEX === 'true') plexClient = new MockPlexClient()
UseMock ==
    /\ mainPc = "start"
    /\ env.USE_MOCK_PLEX = "true"
    /\ plexClient' = "mock"
    /\ mainPc' = "app"
    /\ UNCHANGED <<toolVars, play, movies, routes, env, constructed, registered, mainResult, serverMade,
                   listening, sseTransport, connects, sseOpened, posts>>

\* else try { plexClient = new PlexClient(...) } catch (error) { ... }
ConstructPlexClient ==
    /\ mainPc = "start"
    /\ env.USE_MOCK_PLEX # "true"
    /\ constructed' = constructed + 1
    /\ LET made == PlexClientConstructor(env.PLEX_TOKEN, env) IN
         IF made.kind = "ok"
         THEN /\ plexClient' = "upstream"
              /\ mainPc' = "app"
              /\ mainResult' = mainResult
         ELSE LET caught == ConstructorCatch(made.error) IN
              /\ plexClient' = IF caught.kind = "rejected" THEN plexClient
                               ELSE "mock"
              /\ mainPc' = IF caught.kind = "rejected" THEN "failed" ELSE "app"
              /\ mainResult' = IF caught.kind = "rejected" THEN caught
                               ELSE mainResult
    /\ UNCHANGED <<toolVars, play, movies, routes, env, registered, serverMade, listening, sseTransport,
                   connects, sseOpened, posts>>

\* const app = express(); app.use(express.json())
CreateApp ==
    /\ mainPc = "app"
    /\ mainPc' = "server"
    /\ UNCHANGED <<toolVars, play, movies, routes, env, plexClient, constructed, registered, mainResult,
                   serverMade, listening, sseTransport, connects, sseOpened,
                   posts>>

\* const server = new McpServer({...})
CreateServer ==
    /\ mainPc = "server"
    /\ serverMade' = TRUE
    /\ mainPc' = "tools"
    /\ UNCHANGED <<toolVars, play, movies, routes, env, plexClient, constructed, registered, mainResult,
                   listening, sseTransport, connects, sseOpened, posts>>

\* a registration that ends after the seventh server.tool call
RegisterToolUpToSeven ==
    /\ mainPc = "tools"
    /\ registered' = Append(registered, ToolNames[Len(registered) + 1])
    /\ mainPc' = IF Len(registered') = 7 THEN "routes" ELSE "tools"
    /\ UNCHANGED <<toolVars, play, movies, routes, env, plexClient, constructed,
                   mainResult, serverMade, listening, sseTransport, connects,
                   sseOpened, posts>>

\* the next server.tool(name, schema, handler) call, in source order
RegisterTool ==
    /\ mainPc = "tools"
    /\ registered' = Append(registered, ToolNames[Len(registered) + 1])
    /\ mainPc' = IF Len(registered') = Len(ToolNames) THEN "routes" ELSE "tools"
    /\ UNCHANGED <<toolVars, play, movies, routes, env, plexClient, constructed, mainResult, serverMade,
                   listening, sseTransport, connects, sseOpened, posts>>

\* let sseTransport = null; app.get('/sse', ...); app.post('/messages', ...)
DefineRoutes ==
    /\ mainPc = "routes"
    /\ sseTransport' = 0
    /\ mainPc' = "listen"
    /\ UNCHANGED <<toolVars, play, movies, routes, env, plexClient, constructed, registered, mainResult,
                   serverMade, listening, connects, sseOpened, posts>>

\* an app.listen that is reached while server.tool calls are still to come
ListenEarly ==
    /\ mainPc \in {"tools", "listen"}
    /\ listening' = TRUE
    /\ mainPc' = IF mainPc = "listen" THEN "stdio" ELSE mainPc
    /\ UNCHANGED <<toolVars, play, movies, routes, env, plexClient, constructed, registered, mainResult,
                   serverMade, sseTransport, connects, sseOpened, posts>>

\* app.listen(PORT, ...)
Listen ==
    /\ mainPc = "listen"
    /\ listening' = TRUE
    /\ mainPc' = "stdio"
    /\ UNCHANGED <<toolVars, play, movies, routes, env, plexClient, constructed, registered, mainResult,
                   serverMade, sseTransport, connects, sseOpened, posts>>

\* const transport = new StdioServerTransport(); await server.connect(transport)
ConnectStdio ==
    /\ mainPc = "stdio"
    /\ connects' = Append(connects, [transport |-> "stdio", id |-> 0])
    /\ mainPc' = "connecting"
    /\ UNCHANGED <<toolVars, play, movies, routes, env, plexClient, constructed, registered, mainResult,
                   serverMade, listening, sseTransport, sseOpened, posts>>

\* server.connect(transport) resolves and main returns
StdioConnected ==
    /\ mainPc = "connecting"
    /\ mainResult' = [kind |-> "resolved"]
    /\ mainPc' = "done"
    /\ UNCHANGED <<toolVars, play, movies, routes, env, plexClient, constructed, registered, serverMade,
                   listening, sseTransport, connects, sseOpened, posts>>

\* a request is served only when main has yielded at its await
Serving == listening /\ mainPc \in {"connecting", "done"}

\* a GET /sse route that makes the transport and never connects it
GetSseUnconnected ==
    /\ Serving
    /\ sseOpened < MaxSse
    /\ sseOpened' = sseOpened + 1
    /\ sseTransport' = sseOpened + 1
    /\ UNCHANGED <<toolVars, play, movies, routes, mainPc, env, plexClient, constructed,
                   registered, mainResult, serverMade, listening, posts,
                   connects>>

\* GET /sse: sseTransport = new SSEServerTransport(...); server.connect(it)
GetSse ==
    /\ Serving
    /\ sseOpened < MaxSse
    /\ sseOpened' = sseOpened + 1
    /\ sseTransport' = sseOpened + 1
    /\ connects' = Append(connects, [transport |-> "sse", id |-> sseOpened + 1])
    /\ UNCHANGED <<toolVars, play, movies, routes, mainPc, env, plexClient, constructed, registered,
                   mainResult, serverMade, listening, posts>>

\* a POST /messages route that keeps to the transport opened first
PostMessagesFirstTransport ==
    /\ Serving
    /\ Len(posts) < MaxPosts
    /\ posts' = Append(posts,
                       IF sseTransport = 0
                       THEN [status |-> 400, handledBy |-> 0]
                       ELSE [status |-> 202, handledBy |-> 1])
    /\ UNCHANGED <<toolVars, play, movies, routes, mainPc, env, plexClient, constructed,
                   registered, mainResult, serverMade, listening, sseTransport,
                   connects, sseOpened>>

\* POST /messages: 400 when sseTransport is null, else handlePostMessage
PostMessages ==
    /\ Serving
    /\ Len(posts) < MaxPosts
    /\ posts' = Append(posts,
                       IF sseTransport = 0
                       THEN [status |-> 400, handledBy |-> 0]
                       ELSE [status |-> 202, handledBy |-> sseTransport])
    /\ UNCHANGED <<toolVars, play, movies, routes, mainPc, env, plexClient, constructed, registered,
                   mainResult, serverMade, listening, sseTransport, connects,
                   sseOpened>>

MainNext ==
    \/ UseMock
    \/ ConstructPlexClient
    \/ CreateApp
    \/ CreateServer
    \/ RegisterTool
    \/ DefineRoutes
    \/ Listen
    \/ ConnectStdio
    \/ StdioConnected
    \/ GetSse
    \/ PostMessages

----------------------------------------------------------------------------
(* PlexClient.playMedia(mediaId, deviceId) *)

MediaIds == {"1", "5", "7", "abc"}

DeviceIds == {"dev-a", "dev-b", "dev-x"}

PlayIdle ==
    [pc |-> "idle", mediaId |-> "", deviceId |-> "", requests |-> <<>>,
     devices |-> None, media |-> None, targetDevice |-> "none",
     result |-> None]

\* devices.find(device => device.clientIdentifier === deviceId): the index of
\* the first match, 0 when there is none
FindDevice(devices, deviceId) ==
    LET hits == {i \in DOMAIN devices :
                   ~IsNullish(devices[i])
                   /\ Get(devices[i], "clientIdentifier") = deviceId}
    IN IF hits = {} THEN 0 ELSE CHOOSE i \in hits : \A j \in hits : i <= j

\* find reads a property of null before it reaches a match
FindFaults(list, deviceId) ==
    \/ ~IsArray(list)
    \/ \E i \in DOMAIN list.elems :
         /\ IsNullish(list.elems[i])
         /\ (FindDevice(list.elems, deviceId) = 0
             \/ i < FindDevice(list.elems, deviceId))

\* !response.object?.mediaContainer?.metadata?.[0]
NoMediaItem(response) ==
    \/ "object" \notin DOMAIN response
    \/ "mediaContainer" \notin DOMAIN response.object
    \/ "metadata" \notin DOMAIN response.object.mediaContainer
    \/ ~IsArray(response.object.mediaContainer.metadata)
    \/ response.object.mediaContainer.metadata.elems = <<>>
    \/ IsNullish(response.object.mediaContainer.metadata.elems[1])

DeviceNotFound(deviceId) == Err(<<"Device with ID ", deviceId, " not found">>)

MediaNotFound(mediaId) == Err(<<"Media item with ID ", mediaId, " not found">>)

PlayInit == play = PlayIdle

\* the call runs to await this.getDevices()
PlayMedia(mediaId, deviceId) ==
    /\ play.pc = "idle"
    /\ UNCHANGED <<toolVars, mainVars, movies, routes>>
    /\ play' = [PlayIdle EXCEPT !.pc = "devices", !.mediaId = mediaId,
                                !.deviceId = deviceId,
                                !.requests = <<[op |-> "getDevices"]>>]

\* what follows the device lookup, settled as d (p.devices and p.media keep
\* what the two lookups returned)
AfterDevices(p, d) ==
    IF d.kind = "reject"
    THEN [p EXCEPT !.pc = "done", !.devices = d, !.result = Reject(d.error)]
    ELSE IF FindFaults(d.value, p.deviceId)
         THEN [p EXCEPT !.pc = "done", !.devices = d,
                        !.result = Reject(TypeErr)]
    ELSE IF FindDevice(d.value.elems, p.deviceId) = 0
         THEN [p EXCEPT !.pc = "done", !.devices = d,
                        !.result = Reject(DeviceNotFound(p.deviceId))]
    ELSE [p EXCEPT !.pc = "media", !.devices = d,
                   !.targetDevice =
                      d.value.elems[FindDevice(d.value.elems, p.deviceId)]
                        .clientIdentifier,
                   !.requests = Append(@, [op |-> "getLibraryItems",
                                           sectionKey |-> ParseInt(p.mediaId),
                                           type |-> 1, tag |-> "Tag.Newest"])]

\* getDevices settles with the upstream's answer r; on a match the call runs
\* to await this.client.library.getLibraryItems(...)
DevicesAnswered(r) ==
    /\ play' = AfterDevices(play, Plex_getDevices(r))
    /\ UNCHANGED <<toolVars, mainVars, movies, routes>>

\* a media lookup whose answer is not inspected before the playback command
AfterMediaUnchecked(p, r) ==
    IF r.kind = "throw"
    THEN [p EXCEPT !.pc = "done", !.media = r, !.result = Reject(r.error)]
    ELSE [p EXCEPT !.pc = "playing", !.media = r,
                   !.requests = Append(@, [op |-> "playMedia",
                                           machineIdentifier |-> p.deviceId,
                                           key |-> <<"/library/metadata/",
                                                     p.mediaId>>])]

\* what follows the media lookup, answered r
AfterMedia(p, r) ==
    IF r.kind = "throw"
    THEN [p EXCEPT !.pc = "done", !.media = r, !.result = Reject(r.error)]
    ELSE IF NoMediaItem(r.response)
         THEN [p EXCEPT !.pc = "done", !.media = r,
                        !.result = Reject(MediaNotFound(p.mediaId))]
    ELSE [p EXCEPT !.pc = "playing", !.media = r,
                   !.requests = Append(@, [op |-> "playMedia",
                                           machineIdentifier |-> p.deviceId,
                                           key |-> <<"/library/metadata/",
                                                     p.mediaId>>])]

\* the media lookup settles; on a hit the call runs to await fetch(fullUrl)
MediaAnswered(r) ==
    /\ play' = AfterMedia(play, r)
    /\ UNCHANGED <<toolVars, mainVars, movies, routes>>

\* answers to the playback command
PlaybackResponses ==
    SdkThrows
    \cup {[kind |-> "response", ok |-> TRUE, statusText |-> "OK"],
          [kind |-> "response", ok |-> FALSE, statusText |-> "Not Found"]}

\* the playback command is answered and playMedia settles
PlaybackAnswered(r) ==
    /\ UNCHANGED <<toolVars, mainVars, movies, routes>>
    /\ play' = [play EXCEPT
               !.pc = "done",
               !.result =
                  IF r.kind = "throw" THEN Reject(r.error)
                  ELSE IF ~r.ok
                       THEN Reject(Err(<<"Failed to start playback: ",
                                         r.statusText>>))
                  ELSE Resolve(Undefined)]

\* the caller takes the outcome; the next call may start
PlayReturn ==
    /\ play.pc = "done"
    /\ play' = PlayIdle
    /\ UNCHANGED <<toolVars, mainVars, movies, routes>>

PlayNext ==
    \/ \E m \in MediaIds, d \in DeviceIds : PlayMedia(m, d)
    \/ /\ play.pc = "devices"
       /\ \E r \in SdkResponses("device", UpstreamDeviceEntries) :
            DevicesAnswered(r)
    \/ /\ play.pc = "media"
       /\ \E r \in SdkResponses("metadata", {ItemMovie, ItemShow, JsNull}) :
            MediaAnswered(r)
    \/ /\ play.pc = "playing"
       /\ \E r \in PlaybackResponses : PlaybackAnswered(r)
    \/ PlayReturn

----------------------------------------------------------------------------
(* PlexClient.getMovies, step by step: the library lookup, the fetches of    *)
(* the movie libraries, all started by one map, and their join by           *)
(* Promise.all                                                              *)

MoviesIdle ==
    [pc |-> "idle", requests |-> <<>>, libraries |-> None,
     movieLibraries |-> <<>>, fetches |-> <<>>, order |-> <<>>,
     result |-> None]

\* the call runs to await this.getLibraries()
GetMovies ==
    /\ movies.pc = "idle"
    /\ movies' = [MoviesIdle EXCEPT !.pc = "libraries",
                                    !.requests = <<[op |-> "getAllLibraries"]>>]
    /\ UNCHANGED <<toolVars, mainVars, play, routes>>

\* a library lookup whose failure is taken as "no libraries"
AfterLibrariesEmptyOnError(m, l) ==
    IF l.kind = "reject" \/ MapFaults(l.value)
    THEN [m EXCEPT !.pc = "done", !.libraries = l,
                   !.result = Resolve(Arr(<<>>))]
    ELSE LET movieLibraries == SelectSeq(l.value.elems, IsMovie) IN
         IF movieLibraries = <<>>
         THEN [m EXCEPT !.pc = "done", !.libraries = l,
                        !.result = Resolve(Arr(<<>>))]
         ELSE [m EXCEPT
                 !.pc = "joining", !.libraries = l,
                 !.movieLibraries = movieLibraries,
                 !.requests =
                    @ \o [i \in DOMAIN movieLibraries |->
                            LibraryContentsRequest(
                              Get(movieLibraries[i], "key"), 1, "Tag.Newest",
                              DefaultStart, DefaultSize)],
                 !.fetches = [i \in DOMAIN movieLibraries |-> None]]

\* what follows the library lookup, settled as l: filter, the early return,
\* and movieLibraries.map(lib => this.getLibraryContents(lib.key)), where each
\* getLibraryContents runs to its await fetch(url)
AfterLibraries(m, l) ==
    IF l.kind = "reject"
    THEN [m EXCEPT !.pc = "done", !.libraries = l, !.result = Reject(l.error)]
    ELSE IF MapFaults(l.value)
         THEN [m EXCEPT !.pc = "done", !.libraries = l,
                        !.result = Reject(TypeErr)]
    ELSE LET movieLibraries == SelectSeq(l.value.elems, IsMovie) IN
         IF movieLibraries = <<>>
         THEN [m EXCEPT !.pc = "done", !.libraries = l,
                        !.result = Resolve(Arr(<<>>))]
         ELSE [m EXCEPT
                 !.pc = "joining", !.libraries = l,
                 !.movieLibraries = movieLibraries,
                 !.requests =
                    @ \o [i \in DOMAIN movieLibraries |->
                            LibraryContentsRequest(
                              Get(movieLibraries[i], "key"), 1, "Tag.Newest",
                              DefaultStart, DefaultSize)],
                 !.fetches = [i \in DOMAIN movieLibraries |-> None]]

LibrariesAnswered(r) ==
    /\ movies' = AfterLibraries(movies, Plex_getLibraries(r))
    /\ UNCHANGED <<toolVars, mainVars, play, routes>>

\* a join that goes on as soon as one getLibraryContents has resolved
AfterContentsFirstWins(m, i, r) ==
    LET c == Plex_getLibraryContents(r)
        recorded ==
          [m EXCEPT !.fetches[i] = [kind |-> "settled", answer |-> r,
                                    outcome |-> c],
                    !.order = Append(@, i)]
    IN IF m.pc # "joining" THEN recorded
       ELSE IF c.kind = "reject"
            THEN [recorded EXCEPT !.pc = "done", !.result = Reject(c.error)]
       ELSE IF MapFaults(Arr(FlatItems(<<c>>)))
            THEN [recorded EXCEPT !.pc = "done", !.result = Reject(TypeErr)]
       ELSE [recorded EXCEPT
               !.pc = "done",
               !.result = Resolve(Arr(SelectSeq(FlatItems(<<c>>), IsMovie)))]

\* what follows when the getLibraryContents of the i-th movie library settles
\* on the answer r: Promise.all rejects with the first rejection, resolves
\* when the last promise has resolved, and then flatMap and filter run; a
\* promise that settles after the rejection changes nothing
AfterContents(m, i, r) ==
    LET c == Plex_getLibraryContents(r)
        recorded ==
          [m EXCEPT !.fetches[i] = [kind |-> "settled", answer |-> r,
                                    outcome |-> c],
                    !.order = Append(@, i)]
        movieResults ==
          [j \in DOMAIN recorded.fetches |-> recorded.fetches[j].outcome]
    IN IF m.pc # "joining" THEN recorded
       ELSE IF c.kind = "reject"
            THEN [recorded EXCEPT !.pc = "done", !.result = Reject(c.error)]
       ELSE IF \E j \in DOMAIN recorded.fetches :
                 recorded.fetches[j].kind = "none"
            THEN recorded
       ELSE IF MapFaults(Arr(FlatItems(movieResults)))
            THEN [recorded EXCEPT !.pc = "done", !.result = Reject(TypeErr)]
       ELSE [recorded EXCEPT
               !.pc = "done",
               !.result =
                  Resolve(Arr(SelectSeq(FlatItems(movieResults), IsMovie)))]

ContentsSettled(i, r) ==
    /\ movies' = AfterContents(movies, i, r)
    /\ UNCHANGED <<toolVars, mainVars, play, routes>>

\* the caller takes the outcome; the next call may start
MoviesReturn ==
    /\ movies.pc = "done"
    /\ movies' = MoviesIdle
    /\ UNCHANGED <<toolVars, mainVars, play, routes>>

MoviesNext ==
    \/ GetMovies
    \/ /\ movies.pc = "libraries"
       /\ \E r \in SdkResponses(
                      "directory",
                      UpstreamLibraryEntries
                        \cup {[key |-> "5", title |-> "Archive",
                               type |-> "movie"]}) :
            LibrariesAnswered(r)
    \/ /\ movies.pc \in {"joining", "done"}
       /\ \E i \in DOMAIN movies.fetches :
            /\ movies.fetches[i].kind = "none"
            /\ \E r \in FetchResponses(movies.requests[i + 1].section,
                                       movies.requests[i + 1].containerStart,
                                       movies.requests[i + 1].containerSize) :
                 ContentsSettled(i, r)
    \/ MoviesReturn

----------------------------------------------------------------------------
(* The /sse and /messages routes, step by step: the GET handler up to its   *)
(* await server.connect, the connect's completion, the client ending a      *)
(* stream, and the POST handler                                             *)

\* let sseTransport: SSEServerTransport | null = null
RoutesIdle ==
    [sseTransport |-> 0, opened |-> 0, connecting |-> {}, connected |-> {},
     closed |-> {}, posts |-> <<>>]

\* GET /sse: sseTransport = new SSEServerTransport("/messages", res), then the
\* handler calls server.connect(sseTransport) and waits for it
RouteGetSse ==
    /\ routes.opened < MaxSse
    /\ routes' = [routes EXCEPT !.opened = @ + 1,
                                !.sseTransport = routes.opened + 1,
                                !.connecting = @ \cup {routes.opened + 1}]
    /\ UNCHANGED <<toolVars, mainVars, play, movies>>

\* await server.connect(sseTransport) of the n-th GET /sse resolves
RouteConnected(n) ==
    /\ n \in routes.connecting
    /\ routes' = [routes EXCEPT !.connecting = @ \ {n},
                                !.connected = @ \cup {n}]
    /\ UNCHANGED <<toolVars, mainVars, play, movies>>

\* the client ends the n-th event stream; no statement of the routes runs
RouteClientCloses(n) ==
    /\ n \in 1..routes.opened
    /\ n \notin routes.closed
    /\ routes' = [routes EXCEPT !.closed = @ \cup {n}]
    /\ UNCHANGED <<toolVars, mainVars, play, movies>>

\* POST /messages: 400 when sseTransport is null, else the request is handed
\* to sseTransport.handlePostMessage
RoutePost ==
    /\ Len(routes.posts) < MaxPosts
    /\ routes' =
         [routes EXCEPT
            !.posts =
               Append(@, IF routes.sseTransport = 0
                         THEN [status |-> "400", handedTo |-> 0,
                               connected |-> FALSE, closed |-> FALSE]
                         ELSE [status |-> "handed",
                               handedTo |-> routes.sseTransport,
                               connected |->
                                 routes.sseTransport \in routes.connected,
                               closed |->
                                 routes.sseTransport \in routes.closed])]
    /\ UNCHANGED <<toolVars, mainVars, play, movies>>

RoutesNext ==
    \/ RouteGetSse
    \/ \E n \in 1..MaxSse : RouteConnected(n)
    \/ \E n \in 1..MaxSse : RouteClientCloses(n)
    \/ RoutePost

----------------------------------------------------------------------------
(* Specifications: the tool invocations against either client, main, and    *)
(* playMedia.  Each starts the parts it does not follow at rest.            *)

MainAtRest ==
    /\ mainPc = "start"
    /\ env = [USE_MOCK_PLEX |-> Undefined, PLEX_TOKEN |-> Undefined]
    /\ plexClient = "unset"
    /\ constructed = 0
    /\ registered = <<>>
    /\ mainResult = [kind |-> "pending"]
    /\ serverMade = FALSE
    /\ listening = FALSE
    /\ sseTransport = 0
    /\ connects = <<>>
    /\ sseOpened = 0
    /\ posts = <<>>

InitTools ==
    /\ client \in {"mock", "upstream"}
    /\ ToolInit
    /\ MainAtRest
    /\ PlayInit
    /\ movies = MoviesIdle
    /\ routes = RoutesIdle

SpecTools == InitTools /\ [][ToolNext]_vars

\* the tool invocations that leave the optional arguments out and search with
\* the empty query
ToolNextPlain ==
    \/ /\ pc = "idle"
       /\ \E i \in DOMAIN ToolNames : \E a \in ArgsOf(ToolNames[i]) :
            /\ DOMAIN a \subseteq {"libraryId", "showId", "seasonId", "query"}
            /\ "query" \in DOMAIN a => a.query = <<>>
            /\ Invoke(ToolNames[i], a)
    \/ MockSettled
    \/ /\ pc = "awaiting"
       /\ client = "upstream"
       /\ \E r \in UpstreamResponses(clientCalls[1]) : UpstreamSettled(r)
    \/ Respond

\* these invocations when every awaited client call completes
SpecToolsLive ==
    /\ InitTools
    /\ [][ToolNextPlain]_vars
    /\ WF_vars(pc = "awaiting" /\ ToolNextPlain)

InitMain ==
    /\ client = "mock"
    /\ ToolInit
    /\ MainInit
    /\ PlayInit
    /\ movies = MoviesIdle
    /\ routes = RoutesIdle

SpecMain == InitMain /\ [][MainNext]_vars

InitPlay ==
    /\ client = "upstream"
    /\ ToolInit
    /\ MainAtRest
    /\ PlayInit
    /\ movies = MoviesIdle
    /\ routes = RoutesIdle

SpecPlay == InitPlay /\ [][PlayNext]_vars

InitMovies ==
    /\ client = "upstream"
    /\ ToolInit
    /\ MainAtRest
    /\ PlayInit
    /\ movies = MoviesIdle
    /\ routes = RoutesIdle

SpecMovies == InitMovies /\ [][MoviesNext]_vars

InitRoutes ==
    /\ client = "upstream"
    /\ ToolInit
    /\ MainAtRest
    /\ PlayInit
    /\ movies = MoviesIdle
    /\ routes = RoutesIdle

SpecRoutes == InitRoutes /\ [][RoutesNext]_vars

----------------------------------------------------------------------------
(* Properties of the tool handlers, checked under SpecTools *)

Payload == toolResult.content[1].json

\* the handler returned {content: [one text entry], isError: true}
ReportsError ==
    /\ DOMAIN toolResult = {"content", "isError"}
    /\ toolResult.isError = TRUE
    /\ Len(toolResult.content) = 1
    /\ toolResult.content[1].type = "text"

\* the handler returned {content: [one text entry]} without the error flag
ReportsSuccess ==
    /\ DOMAIN toolResult = {"content"}
    /\ Len(toolResult.content) = 1
    /\ toolResult.content[1].type = "text"

\* the list the handler of the current tool maps over
ResultList ==
    IF tool = "get-library-contents" THEN clientResult.value.items
    ELSE clientResult.value

\* the property each entry of that list is identified by
IdProperty ==
    CASE tool = "get-libraries" -> "key"
      [] tool = "get-devices" -> "clientIdentifier"
      [] OTHER -> "ratingKey"

\* the result has the shape the client interface declares: a list of objects
\* that carry their id (with a totalSize, for getLibraryContents)
ExpectedShape ==
    /\ IsArray(ResultList)
    /\ \A i \in DOMAIN ResultList.elems :
         /\ ~IsNullish(ResultList.elems[i])
         /\ IdProperty \in DOMAIN ResultList.elems[i]
    /\ tool = "get-library-contents" => "totalSize" \in DOMAIN clientResult.value

\* the awaited client operation failed: it threw, or its result has an
\* unexpected shape
ClientFailed ==
    \/ clientResult.kind = "reject"
    \/ clientResult.kind = "resolve" /\ ~ExpectedShape

\* the reshaping of the result raises: the list is no array, or an entry of
\* it is null
ReshapingRaises == clientResult.kind = "resolve" /\ MapFaults(ResultList)

----------------------------------------------------------------------------

LibraryContentsDone == pc = "done" /\ tool = "get-library-contents"

\* C2 as stated: for every start and size the schema accepts, the Mock
\* Client's getLibraryContents returns at most size items and the tool's media
\* array has at most size entries.
C2_AtMostSizeItems ==
    (LibraryContentsDone /\ client = "mock") =>
      /\ Len(clientResult.value.items.elems) <= clientCalls[1].args.size
      /\ Len(Payload.media) <= clientCalls[1].args.size

----------------------------------------------------------------------------

\* the number of items the library of the current call holds
FullCount ==
    IF client = "mock" THEN Len(MockContents)
    ELSE Len(UpstreamCatalog(ParseInt(args.libraryId)))

\* the tool passes result.totalSize through, twice
TotalSizePassedThrough ==
    ReportsSuccess =>
      /\ "totalSize" \in DOMAIN Payload <=>
           "totalSize" \in DOMAIN clientResult.value
      /\ "totalSize" \in DOMAIN Payload.object.MediaContainer <=>
           "totalSize" \in DOMAIN clientResult.value
      /\ "totalSize" \in DOMAIN Payload =>
           /\ Payload.totalSize = clientResult.value.totalSize
           /\ Payload.object.MediaContainer.totalSize
                = clientResult.value.totalSize

\* C3 as stated: the totalSize getLibraryContents returns is the full number
\* of items of the library, whatever start and size are, for both clients.
C3_TotalSizeIsFullCount ==
    (LibraryContentsDone /\ clientResult.kind = "resolve") =>
      /\ "totalSize" \in DOMAIN clientResult.value
      /\ clientResult.value.totalSize = FullCount
      /\ TotalSizePassedThrough

----------------------------------------------------------------------------

\* the fields the claim expects of every entry of a movie library's media
MovieEntry(e) ==
    /\ {"id", "title", "type", "duration", "rating", "summary"} \subseteq DOMAIN e
    /\ e.type = "movie"

\* C4 as stated: with the Mock Client, get-library-contents called with only
\* libraryId '1' (the library {key:'1', title:'Movies', type:'movie'}) returns
\* a payload without the error flag in which every media entry has an id, a
\* title, type 'movie', and duration, rating and summary.
C4_MovieLibraryHoldsMovies ==
    (LibraryContentsDone /\ client = "mock" /\ args = [libraryId |-> "1"]) =>
      /\ \E i \in DOMAIN MockLibraries :
           MockLibraries[i] = [key |-> "1", title |-> "Movies", type |-> "movie"]
      /\ ReportsSuccess
      /\ \A i \in DOMAIN Payload.media : MovieEntry(Payload.media[i])

----------------------------------------------------------------------------

ProjectingTools == {"get-library-contents", "get-watchlist"}

\* the serialized projections in the payload of the current tool
ProjectedPayload ==
    IF tool = "get-library-contents" THEN Payload.media ELSE Payload.watchlist

\* out is the projection of raw: id, title, year and type are raw's, and the
\* type-specific properties are there exactly when the discriminant matches
ProjectionOf(raw, out) ==
    /\ out.id = Get(raw, "ratingKey")
    /\ out.title = Get(raw, "title")
    /\ out.year = Get(raw, "year")
    /\ out.type = Get(raw, "type")
    /\ ({"duration", "rating"} \subseteq DOMAIN out) <=> (out.type = "movie")
    /\ ({"duration", "rating"} \cap DOMAIN out # {}) <=> (out.type = "movie")
    /\ ("seasons" \in DOMAIN out) <=> (out.type = "show")
    /\ out.type = "movie" =>
         /\ out.duration = Get(raw, "duration")
         /\ out.rating = Get(raw, "rating")
    /\ out.type = "show" => out.seasons = Get(raw, "childCount")
    /\ out.type \notin {"movie", "show"} =>
         DOMAIN out = {"id", "title", "year", "type"}

\* json is JSON.stringify of out: the properties of out that are defined
SerializedFrom(out, json) ==
    /\ DOMAIN json = {k \in DOMAIN out : out[k] # Undefined}
    /\ \A k \in DOMAIN json : json[k] = out[k]

\* C5: in get-library-contents and get-watchlist the projection of every raw
\* item keeps id = ratingKey, title and year; it has the properties duration
\* and rating exactly when the raw type is 'movie', seasons (from childCount)
\* exactly when it is 'show', and only id, title, year and type for any other
\* type; the payload carries the defined properties of each projection.
C5_ProjectionByType ==
    (pc = "done" /\ tool \in ProjectingTools /\ ReportsSuccess) =>
      /\ Len(mediaItems) = Len(ResultList.elems)
      /\ Len(ProjectedPayload) = Len(mediaItems)
      /\ \A i \in DOMAIN mediaItems :
           /\ ProjectionOf(ResultList.elems[i], mediaItems[i])
           /\ SerializedFrom(mediaItems[i], ProjectedPayload[i])

\* a watchlist of a show and a season, from the upstream
C5_Witness ==
    /\ pc = "done"
    /\ tool = "get-watchlist"
    /\ client = "upstream"
    /\ ReportsSuccess
    /\ Len(mediaItems) = 2
    /\ mediaItems[1].type = "show"
    /\ mediaItems[1].seasons = "6"
    /\ mediaItems[2].type = "season"
    /\ DOMAIN ProjectedPayload[2] = {"id", "title", "type"}

----------------------------------------------------------------------------

StreamingTools == {"get-library-contents", "get-movies", "search"}

PayloadMetadata == Payload.object.MediaContainer.Metadata

\* the raw item has no Media (none, or null)
NoMedia(raw) == "Media" \notin DOMAIN raw \/ raw.Media.kind = "null"

\* entry out of the returned Media list comes from the raw entry in: it has
\* the flag, which is in's when in has one and 1 otherwise, and the rest of in
FlagDefaulted(in, out) ==
    /\ DOMAIN out = DOMAIN in \cup {"optimizedForStreaming"}
    /\ \A k \in DOMAIN in : out[k] = in[k]
    /\ "optimizedForStreaming" \notin DOMAIN in => out.optimizedForStreaming = "1"

\* C6: in the object.MediaContainer.Metadata list of get-library-contents,
\* get-movies and search, for every raw item of the client's result, every
\* entry of the item's Media list has optimizedForStreaming: 1 when the raw
\* entry lacked it, the raw entry's value (0 and false included) otherwise; an
\* item with no Media gets exactly one entry, with the default.
C6_StreamingFlagDefaulted ==
    (pc = "done" /\ tool \in StreamingTools /\ ReportsSuccess) =>
      /\ Len(PayloadMetadata) = Len(ResultList.elems)
      /\ \A i \in DOMAIN PayloadMetadata :
           LET raw == ResultList.elems[i]
               out == PayloadMetadata[i]
           IN /\ NoMedia(raw) =>
                   out.Media = Arr(<<[optimizedForStreaming |-> "1"]>>)
              /\ (~NoMedia(raw) /\ IsArray(raw.Media)) =>
                   /\ IsArray(out.Media)
                   /\ Len(out.Media.elems) = Len(raw.Media.elems)
                   /\ \A j \in DOMAIN raw.Media.elems :
                        FlagDefaulted(raw.Media.elems[j], out.Media.elems[j])

\* a search result whose first item has an entry without the flag and one with
\* the flag 0, and whose second item has no Media
C6_Witness ==
    /\ pc = "done"
    /\ tool = "search"
    /\ client = "upstream"
    /\ ReportsSuccess
    /\ Len(PayloadMetadata) = 2
    /\ ResultList.elems[1] = ItemMovie
    /\ PayloadMetadata[1].Media.elems[1].optimizedForStreaming = "1"
    /\ PayloadMetadata[1].Media.elems[2].optimizedForStreaming = "0"
    /\ "Media" \notin DOMAIN ResultList.elems[2]
    /\ Len(PayloadMetadata[2].Media.elems) = 1

----------------------------------------------------------------------------

\* the query is empty or made of blanks and tabs only
OnlyWhitespace(query) == \A i \in DOMAIN query : query[i] \in {" ", "\t"}

\* C7: search with a query that is empty or only whitespace returns an
\* error-flagged result and no client operation is called during the
\* invocation; with any other query the client's search is called exactly
\* once, with the query as given.
C7_BlankQueryNeverSearches ==
    (tool = "search" /\ pc \in {"awaiting", "done"}) =>
      IF OnlyWhitespace(args.query)
      THEN /\ pc = "done"
           /\ ReportsError
           /\ clientCalls = <<>>
           /\ clientResult = None
      ELSE clientCalls = <<[op |-> "search", args |-> [query |-> args.query]]>>

\* a query of two blanks was turned down without a client call
C7_Witness ==
    /\ tool = "search"
    /\ pc = "done"
    /\ args.query = <<" ", "\t">>
    /\ ReportsError
    /\ clientCalls = <<>>

----------------------------------------------------------------------------
(* Properties of main, checked under SpecMain *)

MockMode == env.USE_MOCK_PLEX = "true"

\* PLEX_TOKEN is unset or empty
NoToken == env.PLEX_TOKEN \in {Undefined, ""}

\* nothing of the server exists: no McpServer, no tool, no listener, no
\* transport, no request served
NothingStarted ==
    /\ ~serverMade
    /\ registered = <<>>
    /\ ~listening
    /\ connects = <<>>
    /\ sseOpened = 0
    /\ posts = <<>>

\* a step of main's startup sequence
StartupStep ==
    \/ UseMock
    \/ ConstructPlexClient
    \/ CreateApp
    \/ CreateServer
    \/ RegisterTool
    \/ DefineRoutes
    \/ Listen
    \/ ConnectStdio
    \/ StdioConnected

C9_FallsBackToMock ==
    (~MockMode /\ NoToken /\ constructed > 0) =>
      /\ plexClient = "mock"
      /\ mainPc # "failed"
      /\ mainResult.kind # "rejected"

----------------------------------------------------------------------------
(* Properties of playMedia, checked under SpecPlay *)

RequestOps == [i \in DOMAIN play.requests |-> play.requests[i].op]

PlaybackSent == \E i \in DOMAIN play.requests : play.requests[i].op = "playMedia"

\* the device lookup returned a list
DevicesListed == play.devices.kind = "resolve" /\ IsArray(play.devices.value)

\* the device lookup found a device whose clientIdentifier is deviceId
DeviceFound ==
    /\ DevicesListed
    /\ \E i \in DOMAIN play.devices.value.elems :
         /\ ~IsNullish(play.devices.value.elems[i])
         /\ Get(play.devices.value.elems[i], "clientIdentifier") = play.deviceId

\* the device lookup returned devices, none of them deviceId
DeviceLookupEmpty ==
    /\ DevicesListed
    /\ \A i \in DOMAIN play.devices.value.elems :
         /\ ~IsNullish(play.devices.value.elems[i])
         /\ Get(play.devices.value.elems[i], "clientIdentifier") # play.deviceId

MediaLookupAnswered == play.media.kind = "ok"

\* the media lookup returned a list with a first item
MediaFound ==
    /\ MediaLookupAnswered
    /\ "object" \in DOMAIN play.media.response
    /\ "mediaContainer" \in DOMAIN play.media.response.object
    /\ "metadata" \in DOMAIN play.media.response.object.mediaContainer
    /\ LET metadata == play.media.response.object.mediaContainer.metadata
       IN /\ IsArray(metadata)
          /\ Len(metadata.elems) > 0
          /\ ~IsNullish(metadata.elems[1])

\* C10: playMedia sends the playback command only as its third request, after
\* the device lookup found a device whose clientIdentifier is deviceId and
\* after the media lookup returned a first item; when the device lookup finds
\* no such device it rejects with 'Device with ID <deviceId> not found' and
\* asks nothing more; when the media lookup returns no item it rejects with
\* 'Media item with ID <mediaId> not found'; in both cases no playback command
\* is sent.
C10_LookupsBeforePlayback ==
    /\ PlaybackSent =>
         /\ RequestOps = <<"getDevices", "getLibraryItems", "playMedia">>
         /\ DeviceFound
         /\ MediaFound
         /\ play.requests[3].machineIdentifier = play.deviceId
         /\ play.requests[3].key = <<"/library/metadata/", play.mediaId>>
    /\ MediaLookupAnswered => DeviceFound
    /\ DeviceLookupEmpty =>
         /\ play.pc = "done"
         /\ play.result =
              Reject(Err(<<"Device with ID ", play.deviceId, " not found">>))
         /\ RequestOps = <<"getDevices">>
    /\ (MediaLookupAnswered /\ ~MediaFound) =>
         /\ play.pc = "done"
         /\ play.result =
              Reject(Err(<<"Media item with ID ", play.mediaId, " not found">>))
         /\ RequestOps = <<"getDevices", "getLibraryItems">>

\* playback was started on the second device of the list
C10_Witness ==
    /\ play.pc = "done"
    /\ play.result = Resolve(Undefined)
    /\ play.deviceId = "dev-b"
    /\ Len(play.devices.value.elems) = 2
    /\ RequestOps = <<"getDevices", "getLibraryItems", "playMedia">>

----------------------------------------------------------------------------

\* the upstream tag of each enumerated tag
UpstreamTagOf(tag) ==
    CASE tag = "newest" -> "Tag.Newest"
      [] tag = "recentlyAdded" -> "Tag.RecentlyAdded"
      [] tag = "recentlyViewed" -> "Tag.RecentlyViewed"
      [] tag = "onDeck" -> "Tag.OnDeck"
      [] tag = "unwatched" -> "Tag.Unwatched"
      [] tag = "collection" -> "Tag.Collection"

\* tag values outside the enumeration
OtherTags == {"bogus", "", "NEWEST", "on deck"}

\* C11: the get-library-contents handler calls getLibraryContents once
\* whatever the tag is, with the upstream tag of the given tag for each of the
\* six enumerated tags (six different upstream tags) and Tag.Newest when the
\* tag is absent; a tag outside the enumeration makes the handler call the
\* client exactly as an absent tag does; an error-flagged result comes from
\* the client's rejection or from the reshaping, never from the tag.
C11_TagFallsBackToNewest ==
    /\ (tool = "get-library-contents" /\ pc \in {"awaiting", "done"}) =>
         /\ Len(clientCalls) = 1
         /\ clientCalls[1].op = "getLibraryContents"
         /\ clientCalls[1].args.tag =
              IF "tag" \in DOMAIN args THEN UpstreamTagOf(args.tag)
              ELSE "Tag.Newest"
         /\ (pc = "done" /\ ReportsError) =>
              (clientResult.kind = "reject" \/ ReshapingRaises)
    /\ Cardinality({UpstreamTagOf(t) : t \in TagNames}) = 6
    /\ \A t \in OtherTags :
         ClientCall("get-library-contents", [libraryId |-> "1", tag |-> t])
           = ClientCall("get-library-contents", [libraryId |-> "1"])

\* a call tagged onDeck reached the client as Tag.OnDeck and succeeded
C11_Witness ==
    /\ LibraryContentsDone
    /\ "tag" \in DOMAIN args
    /\ args.tag = "onDeck"
    /\ clientCalls[1].args.tag = "Tag.OnDeck"
    /\ ReportsSuccess

----------------------------------------------------------------------------
(* Properties of getMovies                                                  *)

\* getLibraries returned a list of entries
LibrariesListed ==
    /\ movies.libraries # None
    /\ movies.libraries.kind = "resolve"
    /\ ~MapFaults(movies.libraries.value)

\* none of the listed libraries has type 'movie'
NoMovieLibrary ==
    /\ LibrariesListed
    /\ \A i \in DOMAIN movies.libraries.value.elems :
         Get(movies.libraries.value.elems[i], "type") # "movie"

ContentRequests == SelectSeq(movies.requests, LAMBDA q : q.op = "fetch")

\* C12: when getLibraries returns a list none of whose libraries has type
\* 'movie', getMovies is over as soon as the list is in, resolves with the
\* empty list, and the only request it has sent is the library lookup: no
\* content fetch.
C12_NoMovieLibraryNoFetch ==
    NoMovieLibrary =>
      /\ movies.pc = "done"
      /\ movies.result = Resolve(Arr(<<>>))
      /\ movies.requests = <<[op |-> "getAllLibraries"]>>
      /\ ContentRequests = <<>>
      /\ movies.fetches = <<>>

\* the upstream listed a show library and nothing else
C12_Witness ==
    /\ NoMovieLibrary
    /\ movies.pc = "done"
    /\ Len(movies.libraries.value.elems) = 1
    /\ Get(movies.libraries.value.elems[1], "type") = "show"
    /\ movies.result = Resolve(Arr(<<>>))

----------------------------------------------------------------------------

\* the upstream answered the i-th content fetch with the page it was asked
\* for, as a MediaContainer with its Metadata list
AnsweredWithPage(i) ==
    /\ movies.fetches[i].kind = "settled"
    /\ movies.fetches[i].answer \in
         LET q == movies.requests[i + 1]
             page == UpstreamPage(UpstreamCatalog(q.section),
                                  q.containerStart, q.containerSize)
         IN {FetchOk([MediaContainer |->
                        [size |-> Len(page), Metadata |-> Arr(page)]]),
             FetchOk([MediaContainer |->
                        [size |-> Len(page), Metadata |-> Arr(page),
                         totalSize |-> Len(UpstreamCatalog(q.section))]])}

\* getMovies is over and every content fetch was answered with its page
MoviesFetched ==
    /\ movies.pc = "done"
    /\ LibrariesListed
    /\ \A i \in DOMAIN movies.fetches : AnsweredWithPage(i)

\* the items the i-th movie library holds upstream
HeldBy(i) == UpstreamCatalog(ParseInt(Get(movies.movieLibraries[i], "key")))

\* C13 as stated: whatever the number of items a movie library holds, every
\* item of type 'movie' it holds upstream is in the list getMovies resolves
\* with, and every item of that list has type 'movie'.
C13_AllMoviesOfEveryLibrary ==
    MoviesFetched =>
      /\ movies.result.kind = "resolve"
      /\ \A i \in DOMAIN movies.movieLibraries :
           \A k \in DOMAIN HeldBy(i) :
             IsMovie(HeldBy(i)[k]) =>
               \E j \in DOMAIN movies.result.value.elems :
                 movies.result.value.elems[j] = HeldBy(i)[k]
      /\ \A j \in DOMAIN movies.result.value.elems :
           IsMovie(movies.result.value.elems[j])

----------------------------------------------------------------------------

AllSettled == \A i \in DOMAIN movies.fetches : movies.fetches[i].kind = "settled"

\* the orders in which the content fetches can complete
CompletionOrders ==
    {o \in [DOMAIN movies.fetches -> DOMAIN movies.fetches] :
       \A i, j \in DOMAIN o : o[i] = o[j] => i = j}

\* getMovies at the point where the content fetches have just been issued
FetchesIssued ==
    AfterLibraries([MoviesIdle EXCEPT !.pc = "libraries",
                                      !.requests = <<[op |-> "getAllLibraries"]>>],
                   movies.libraries)

\* getMovies after the fetches of m complete in the order o with the answers
\* of the current state
RECURSIVE CompletedIn(_, _)
CompletedIn(m, o) ==
    IF o = <<>> THEN m
    ELSE CompletedIn(AfterContents(m, Head(o), movies.fetches[Head(o)].answer),
                     Tail(o))

\* the fetch outcomes in library order
OutcomesInLibraryOrder ==
    [i \in DOMAIN movies.fetches |-> movies.fetches[i].outcome]

\* the fetches that have rejected so far, in completion order
RejectedInOrder ==
    SelectSeq(movies.order,
              LAMBDA i : movies.fetches[i].outcome.kind = "reject")

\* C14 as stated: with the content fetches all settled, the outcome of
\* getMovies is the one every completion order of the same answers leads to.
C14_SameForEveryOrder ==
    (movies.pc = "done" /\ movies.fetches # <<>> /\ AllSettled) =>
      \A o \in CompletionOrders :
        CompletedIn(FetchesIssued, o).result = movies.result

\* C14: once the libraries are filtered, one content request per movie
\* library has been sent, in library order, before any fetch has settled;
\* getMovies resolves only when every fetch has resolved, with the movies of
\* the fetched items in library order, which is what every completion order
\* of these answers resolves with; it rejects with the error of the fetch
\* that rejected first in completion order, while others may be in flight.
C14_JoinedBeforeFlattening ==
    /\ movies.pc = "joining" =>
         /\ Len(ContentRequests) = Len(movies.movieLibraries)
         /\ Len(movies.fetches) = Len(movies.movieLibraries)
         /\ \A i \in DOMAIN movies.movieLibraries :
              ContentRequests[i].section =
                ParseInt(Get(movies.movieLibraries[i], "key"))
         /\ RejectedInOrder = <<>>
         /\ ~AllSettled
    /\ (movies.pc = "done" /\ movies.fetches # <<>>) =>
         IF RejectedInOrder # <<>>
         THEN movies.result = movies.fetches[RejectedInOrder[1]].outcome
         ELSE /\ AllSettled
              /\ \A o \in CompletionOrders :
                   CompletedIn(FetchesIssued, o).result = movies.result
              /\ movies.result.kind = "resolve" =>
                   movies.result.value.elems =
                     SelectSeq(FlatItems(OutcomesInLibraryOrder), IsMovie)

\* two libraries, the second one's fetch completed first, and the result
\* starts with the first library's movie
C14_Witness ==
    /\ movies.pc = "done"
    /\ Len(movies.movieLibraries) = 2
    /\ Get(movies.movieLibraries[1], "key") = "1"
    /\ Get(movies.movieLibraries[2], "key") = "5"
    /\ movies.order = <<2, 1>>
    /\ movies.result.kind = "resolve"
    /\ Len(movies.result.value.elems) = 22
    /\ movies.result.value.elems[1] = ItemMovie

----------------------------------------------------------------------------
(* Properties of the two channels                                           *)

\* the transports handed to server.connect, in order
Connected == [i \in DOMAIN connects |-> connects[i].transport]

LastPost == posts[Len(posts)]

\* C15: the channel's one reference is always the SSE transport opened last
\* (none before the first GET /sse); a GET /sse opens a new transport,
\* connects it and moves the reference, while every transport connected
\* before stays connected and nothing else changes; a POST /messages is
\* handled by the transport opened last, or answered 400 when none was opened.
C15_PostsGoToLatestTransport ==
    [][/\ sseTransport = sseOpened
       /\ sseTransport' = sseOpened'
       /\ sseOpened' \in {sseOpened, sseOpened + 1}
       /\ sseOpened' = sseOpened + 1 =>
            /\ connects' = Append(connects,
                                  [transport |-> "sse", id |-> sseOpened + 1])
            /\ posts' = posts
       /\ SubSeq(connects', 1, Len(connects)) = connects
       /\ posts' # posts =>
            /\ posts' = Append(posts, LastPost')
            /\ LastPost'.handledBy = sseOpened
            /\ LastPost'.status = IF sseOpened = 0 THEN 400 ELSE 202
            /\ sseOpened' = sseOpened]_vars

\* a message was handled by the first transport, then a second GET /sse came
\* in and the next message was handled by the second transport
C15_Witness ==
    /\ Len(posts) = 2
    /\ posts[1].handledBy = 1
    /\ posts[2].handledBy = 2
    /\ sseTransport = 2
    /\ Connected = <<"stdio", "sse", "sse">>

----------------------------------------------------------------------------

\* the tools a client of either channel sees: those registered on the server
\* its transport was connected to
ToolsVisibleOn(i) == IF serverMade THEN registered ELSE <<>>

----------------------------------------------------------------------------

----------------------------------------------------------------------------
(* Properties of the library-contents request                               *)

\* the get-library-contents handler has returned after the upstream answered
ContentsAnswered ==
    /\ LibraryContentsDone
    /\ client = "upstream"
    /\ upstream.kind = "answer"

ErrorText == toolResult.content[1].text

\* C18: when the upstream answers the library-contents request with a
\* non-success status, getLibraryContents rejects with an Error whose message
\* ends with the status text, and the tool returns an isError payload whose
\* text is the tool's prefix followed by that message; when the request fails
\* with an Error at the network level, getLibraryContents rejects with that
\* Error and the payload's text is the prefix followed by its message.
C18_StatusTextReachesPayload ==
    ContentsAnswered =>
      LET r == upstream.response IN
      /\ (r.kind = "response" /\ ~r.ok) =>
           /\ clientResult =
                Reject(Err(<<"Failed to fetch library contents: ",
                             r.statusText>>))
           /\ ReportsError
           /\ ErrorText = <<"Error getting library contents: ",
                            "Failed to fetch library contents: ", r.statusText>>
      /\ (r.kind = "throw" /\ r.error.instanceofError) =>
           /\ clientResult = Reject(r.error)
           /\ ReportsError
           /\ ErrorText = <<"Error getting library contents: ">> \o r.error.message

\* the upstream answered 'Unauthorized' and the payload says so
C18_Witness ==
    /\ ContentsAnswered
    /\ upstream.response.kind = "response"
    /\ ~upstream.response.ok
    /\ upstream.response.statusText = "Unauthorized"
    /\ ReportsError
    /\ ErrorText[3] = "Unauthorized"

----------------------------------------------------------------------------

\* C19: the request getLibraryContents sends for a get-library-contents call
\* carries, as container start and container size, the start and the size the
\* caller gave, whatever their values, and 0 and 20 where the caller gave
\* none; the client operation was called with the same two values.
C19_StartAndSizeForwarded ==
    ContentsAnswered =>
      LET start == IF "start" \in DOMAIN args THEN args.start ELSE 0
          size == IF "size" \in DOMAIN args THEN args.size ELSE 20
      IN /\ clientCalls[1].args.start = start
         /\ clientCalls[1].args.size = size
         /\ upstream.request.op = "fetch"
         /\ upstream.request.section = ParseInt(args.libraryId)
         /\ upstream.request.containerStart = start
         /\ upstream.request.containerSize = size

\* a negative start and no size: the request asks for 20 items from -2
C19_Witness ==
    /\ ContentsAnswered
    /\ "start" \in DOMAIN args
    /\ args.start = 0 - 2
    /\ "size" \notin DOMAIN args
    /\ upstream.request.containerStart = 0 - 2
    /\ upstream.request.containerSize = 20

----------------------------------------------------------------------------
(* Properties of the Mock Client's watchlist                                *)

\* the get-watchlist handler has returned on the Mock Client
MockWatchlistDone ==
    /\ pc = "done"
    /\ tool = "get-watchlist"
    /\ client = "mock"

\* what the Mock Client returns with no filter
Unfiltered == Mock_getWatchList(Undefined).value.elems

IdsOf(list) == {list[i].ratingKey : i \in DOMAIN list}

\* C20: on the Mock Client, getWatchList('available') resolves with a list
\* whose ids all are ids of the unfiltered list, which lacks at least one
\* unfiltered id, and whose items are the unfiltered items with those ids in
\* their unfiltered order; with 'all', 'released' or no filter it resolves
\* with the unfiltered list.
C20_AvailableIsStrictSubset ==
    MockWatchlistDone =>
      /\ Len(clientCalls) = 1
      /\ clientCalls[1].op = "getWatchList"
      /\ clientResult.kind = "resolve"
      /\ LET returned == clientResult.value.elems IN
         IF "filter" \in DOMAIN args /\ args.filter = "available"
         THEN /\ clientCalls[1].args = [filter |-> "available"]
              /\ IdsOf(returned) \subseteq IdsOf(Unfiltered)
              /\ IdsOf(returned) # IdsOf(Unfiltered)
              /\ returned =
                   SelectSeq(Unfiltered,
                             LAMBDA item : item.ratingKey \in IdsOf(returned))
         ELSE returned = Unfiltered

\* 'available' returned the first and the third item of the watchlist
C20_Witness ==
    /\ MockWatchlistDone
    /\ "filter" \in DOMAIN args
    /\ args.filter = "available"
    /\ Len(clientResult.value.elems) = 2
    /\ clientResult.value.elems[1].ratingKey = "501"
    /\ clientResult.value.elems[2].ratingKey = "503"
    /\ Len(Unfiltered) = 3

----------------------------------------------------------------------------
(* Properties of the two clients                                            *)

\* the awaited client operation resolved with a list, or with an
\* {items, totalSize} pair for getLibraryContents
ResolvedInShape ==
    /\ clientResult.kind = "resolve"
    /\ IF clientCalls[1].op = "getLibraryContents"
       THEN /\ {"items", "totalSize"} \subseteq DOMAIN clientResult.value
            /\ IsArray(clientResult.value.items)
       ELSE IsArray(clientResult.value)

\* C21 as stated: whichever client the handlers close over, it has every
\* operation the interface declares, the operation the handler awaits is one
\* of them, and a call the Mock Client has answered resolved with a list, or
\* with an {items, totalSize} pair for getLibraryContents.
C21_SameMethodContract ==
    /\ InterfaceOperations \subseteq OperationsOf(client)
    /\ \A i \in DOMAIN clientCalls : clientCalls[i].op \in OperationsOf(client)
    /\ (pc = "done" /\ client = "mock" /\ clientCalls # <<>>) => ResolvedInShape

----------------------------------------------------------------------------

\* a list-returning PlexClient operation was awaited and the upstream answered
ListCallAnswered ==
    /\ pc = "done"
    /\ client = "upstream"
    /\ upstream.kind = "answer"
    /\ clientCalls[1].op \in {"getLibraries", "getSeasons", "getEpisodes",
                              "search", "getWatchList", "getDevices"}

\* the property of the media container that holds the operation's list
ListFieldOf(op) ==
    CASE op = "getLibraries" -> "directory"
      [] op = "getDevices" -> "device"
      [] OTHER -> "metadata"

\* the upstream call succeeded, and its response has no object, or the object
\* no media container (no metadata, for the watchlist), or the container no
\* list
AnswerLacksList ==
    LET r == upstream.response
        op == clientCalls[1].op
    IN /\ r.kind = "ok"
       /\ \/ "object" \notin DOMAIN r.response
          \/ IF op = "getWatchList"
             THEN "metadata" \notin DOMAIN r.response.object
             ELSE \/ "mediaContainer" \notin DOMAIN r.response.object
                  \/ ListFieldOf(op) \notin
                       DOMAIN r.response.object.mediaContainer

\* C22 as stated: a list-returning PlexClient operation whose upstream call
\* succeeded with a response that lacks the object, the media container or
\* the list resolves with the empty list.
C22_MissingListIsEmpty ==
    (ListCallAnswered /\ AnswerLacksList) => clientResult = Resolve(Arr(<<>>))

----------------------------------------------------------------------------
(* Termination of a tool invocation                                         *)

\* the handler returned a payload
Returned == pc = "done" /\ (ReportsSuccess \/ ReportsError)

----------------------------------------------------------------------------
(* Properties of the routes, step by step                                   *)

\* C24 as stated: a POST /messages is handed to an SSE transport only while
\* that transport's event stream is open; with no stream opened, or with the
\* referenced stream ended by the client, it is answered 400.
C24_PostNeedsActiveConnection ==
    \A i \in DOMAIN routes.posts :
      /\ routes.posts[i].status = "handed" => ~routes.posts[i].closed
      /\ routes.posts[i].status = "400" => routes.posts[i].handedTo = 0


----------------------------------------------------------------------------
(* Properties of the startup order *)

\* C26: every tool is registered before the server is connected to any
\* transport and before the HTTP listener is started, so whenever a request
\* can arrive on either channel the registered tool set is the complete one.
C26_ToolsBeforeChannels ==
    /\ listening => registered = ToolNames
    /\ connects # <<>> => registered = ToolNames
    /\ Serving => registered = ToolNames
    /\ Len(registered) < Len(ToolNames) => posts = <<>> /\ sseOpened = 0

\* both channels are in use: stdio is connected, an SSE client has connected
\* and a message has been posted
C26_Witness ==
    /\ Serving
    /\ registered = ToolNames
    /\ \E i \in DOMAIN connects : connects[i].transport = "stdio"
    /\ \E i \in DOMAIN connects : connects[i].transport = "sse"
    /\ \E i \in DOMAIN posts : posts[i].handledBy # 0


----------------------------------------------------------------------------
(* Properties of a failing getMovies *)

\* the fetches that have resolved so far
ResolvedFetches ==
    {i \in DOMAIN movies.fetches :
       /\ movies.fetches[i].kind = "settled"
       /\ movies.fetches[i].outcome.kind = "resolve"}

\* C27: getMovies is all-or-nothing. When the library lookup rejects,
\* getMovies rejects with that error and no content fetch is issued; when a
\* content fetch rejects, getMovies rejects with the error of the fetch that
\* rejected first, whatever the other fetches resolve with, earlier or later;
\* and the get-movies handler turns that rejection into the one isError
\* payload carrying the error's message, with no movies.
C27_AllOrNothing ==
    movies.pc = "done" =>
      /\ movies.libraries.kind = "reject" =>
           /\ movies.result = Reject(movies.libraries.error)
           /\ ContentRequests = <<>>
      /\ RejectedInOrder # <<>> =>
           /\ movies.result.kind = "reject"
           /\ movies.result.error =
                movies.fetches[RejectedInOrder[1]].outcome.error
      /\ movies.result.kind = "reject" =>
           /\ GetMoviesHandler(movies.result) =
                ErrorPayload("Error getting movies: ", movies.result.error)
           /\ GetMoviesHandler(movies.result).isError
           /\ Len(GetMoviesHandler(movies.result).content) = 1

\* two movie libraries, one fetch resolved with items and the other rejected
C27_Witness ==
    /\ movies.pc = "done"
    /\ Len(movies.fetches) = 2
    /\ RejectedInOrder # <<>>
    /\ \E i \in ResolvedFetches : HeldBy(i) # <<>>
    /\ movies.result.kind = "reject"

\* the library lookup itself failed
C27_LookupFailed ==
    /\ movies.pc = "done"
    /\ movies.libraries.kind = "reject"


----------------------------------------------------------------------------
(* Properties of the tag of getLibraryContents *)

\* C28 as stated: the request getLibraryContents has sent differs from the
\* request the same call would send with any other upstream tag.
C28_TagSelectsRequest ==
    ContentsAnswered =>
      \A t \in {UpstreamTagOf(n) : n \in TagNames} \ {clientCalls[1].args.tag} :
        LibraryContentsRequest(
          clientCalls[1].args.libraryId, clientCalls[1].args.type, t,
          clientCalls[1].args.start, clientCalls[1].args.size)
          # upstream.request


----------------------------------------------------------------------------
(* Properties of the log *)

\* the token of a client made by new PlexClient({token: 'secret'})
ConfiguredToken == PlexClientConstructor("secret", env).accessToken

\* the entries written by the client call of the invocation that has returned
EntriesWritten ==
    PlexLogEntries(clientCalls[1], upstream.response, ConfiguredToken)

\* C29 as stated: when a tool invocation on the Upstream Client has returned,
\* no entry its client operation wrote through the logger has the access
\* token in it.
C29_TokenNotLogged ==
    (pc = "done" /\ client = "upstream" /\ upstream.kind = "answer") =>
      \A i \in DOMAIN EntriesWritten :
        \A j \in DOMAIN EntriesWritten[i].text :
          EntriesWritten[i].text[j] # ConfiguredToken

\* the same for every operation but getWatchList
C29_OnlyWatchListLogsToken ==
    (pc = "done" /\ client = "upstream" /\ upstream.kind = "answer"
       /\ clientCalls[1].op # "getWatchList") =>
      \A i \in DOMAIN EntriesWritten :
        \A j \in DOMAIN EntriesWritten[i].text :
          EntriesWritten[i].text[j] # ConfiguredToken

====
